---- MODULE Spec2Model ----
(***************************************************************************)
(* ReadyAPI MCP server: the tool-call dispatcher (src/src/index.ts) and    *)
(* the six handler groups (src/src/readyapi/project-manager.ts and         *)
(* src/src/readyapi/rest-helper.ts), as a state machine over in-flight     *)
(* tool calls.  A tool call is an async handler; it runs synchronously up  *)
(* to its first await, and resumes when the awaited promise settles.       *)
(***************************************************************************)
EXTENDS Integers, Sequences, FiniteSets, TLC

(* ---------------------------------------------------------------------- *)
(* Bounds of the model                                                     *)
(* ---------------------------------------------------------------------- *)
\* largest reading of the clock (new Date()); readings are 0..MaxTime
MaxTime == 1
\* number of tool calls that may be in flight at once in SpecConc
MaxInFlight == 2
\* number of interrupt signals the operator may send
MaxSignals == 2

(* ---------------------------------------------------------------------- *)
(* JavaScript values carried by an argument bag (JSON values + undefined)  *)
(* ---------------------------------------------------------------------- *)
\* A string is the sequence of the symbols it is made of; a symbol stands for
\* one character, or for a run of characters no operation looks inside.
Undefined == [t |-> "undefined", s |-> <<>>, n |-> 0]
Null == [t |-> "null", s |-> <<>>, n |-> 0]
StrOf(syms) == [t |-> "string", s |-> syms, n |-> 0]
Str(x) == StrOf(IF x = "" THEN <<>> ELSE <<x>>)
Num(k) == [t |-> "number", s |-> <<>>, n |-> k]
Bool(b) == [t |-> "boolean", s |-> <<>>, n |-> IF b THEN 1 ELSE 0]
Obj == [t |-> "object", s |-> <<>>, n |-> 0]

\* the typeof operator
TypeOf(x) == IF x.t = "null" THEN "object" ELSE x.t

\* ToBoolean, as used by !x and x || y
Truthy(x) ==
    CASE x.t = "string" -> x.s /= <<>>
      [] x.t = "number" -> x.n /= 0
      [] x.t = "boolean" -> x.n /= 0
      [] x.t = "object" -> TRUE
      [] OTHER -> FALSE

\* decimal digits of the small numbers an argument can carry
Digits == <<"0", "1", "2", "3", "4", "5", "6", "7", "8", "9">>

\* ToString, as applied by a template literal ${x}
ToStr(x) ==
    CASE x.t = "string" -> x.s
      [] x.t = "number" -> <<Digits[x.n + 1]>>
      [] x.t = "null" -> <<"null">>
      [] x.t = "boolean" -> IF x.n /= 0 THEN <<"true">> ELSE <<"false">>
      [] x.t = "object" -> <<"[object Object]">>
      [] OTHER -> <<"undefined">>

\* variant: the default replaces every falsy value, as `x || d` would
DefaultIfFalsy(x, d) == IF Truthy(x) THEN x ELSE d

\* variant: a destructuring default is never applied
DefaultNever(x, d) == x

\* a destructuring default (x = d) applies only to undefined
Default(x, d) == IF x = Undefined THEN d ELSE x

\* x || d
OrElse(x, d) == IF Truthy(x) THEN x ELSE d

(* ---------------------------------------------------------------------- *)
(* Text: a string as the sequence of the pieces it was concatenated from.  *)
(* A piece is a literal or an echoed string, or a clock reading rendered   *)
(* by toISOString().                                                       *)
(* ---------------------------------------------------------------------- *)
S(x) == [k |-> "str", v |-> <<x>>, t |-> 0]
V(x) == [k |-> "str", v |-> ToStr(x), t |-> 0]
T(now) == [k |-> "time", v |-> <<>>, t |-> now]

\* the text with every clock reading blanked
Erase(text) == [i \in DOMAIN text |-> IF text[i].k = "time" THEN T(0) ELSE text[i]]

\* number of clock readings embedded in the text
RECURSIVE TimeCount(_)
TimeCount(text) ==
    IF text = <<>> THEN 0
    ELSE (IF Head(text).k = "time" THEN 1 ELSE 0) + TimeCount(Tail(text))

\* the text contains the string x as one of its pieces
Contains(text, x) == \E i \in DOMAIN text : text[i] = S(x)

(* ---------------------------------------------------------------------- *)
(* Result envelopes and promise outcomes                                   *)
(* ---------------------------------------------------------------------- *)
\* variant: the envelope carries a second block
EnvelopeTwoBlocks(text) ==
    [content |-> <<[type |-> "text", text |-> text], [type |-> "text", text |-> <<>>]>>,
     isError |-> "unset"]

\* { content: [{ type: 'text', text }] } as every handler group returns it
Envelope(text) == [content |-> <<[type |-> "text", text |-> text]>>, isError |-> "unset"]

\* placeholder for "no envelope"
NoEnvelope == [content |-> <<>>, isError |-> "unset"]

\* a settled async leaf function: resolved with a text, or rejected with an
\* Error whose message is the text
Resolved(text) == [ok |-> TRUE, text |-> text]
Rejected(text) == [ok |-> FALSE, text |-> text]
NoOutcome == [ok |-> TRUE, text |-> <<>>]

\* What the synchronous part of a handler group leaves behind:
\*   st = "rejected": the group's promise is rejected with Error out.text
\*   st = "settled":  the group's promise is resolved with env
\*   st = "awaiting": the group is suspended at `await leaf(...)`, and the
\*                    leaf's promise has the outcome out
GroupRejected(text) ==
    [st |-> "rejected", env |-> NoEnvelope, leaf |-> "none", out |-> Rejected(text)]
GroupSettled(env) ==
    [st |-> "settled", env |-> env, leaf |-> "none", out |-> NoOutcome]
GroupAwaiting(leaf, out) ==
    [st |-> "awaiting", env |-> NoEnvelope, leaf |-> leaf, out |-> out]

\* message of the TypeError raised by destructuring an undefined argument
DestructureError ==
    <<S("Cannot destructure property '"), S("projectPath"), S("' of 'args' as it is undefined.")>>

\* message of the TypeError raised by calling a string method on a non-string
NotAFunction(expr) == <<S(expr), S(" is not a function")>>

\* variant: only the presence of a value is checked, not its type
InvalidProjectPathFalsyOnly(projectPath) == ~Truthy(projectPath)

\* variant: the type is checked only when the field is present
InvalidProjectPathIfPresent(projectPath) ==
    projectPath /= Undefined /\ TypeOf(projectPath) /= "string"

\* the validation every group starts with: !projectPath || typeof projectPath !== 'string'
InvalidProjectPath(projectPath) == ~Truthy(projectPath) \/ TypeOf(projectPath) /= "string"

ProjectPathRequired == <<S("Project path is required and must be a string")>>

\* variant: an absent action is reported as an unknown one
ActionRequiredAsUnknown == <<S("Unknown action: "), S("undefined")>>

\* message of the `!action` check of the four action-taking groups
ActionRequired == <<S("Action is required")>>

\* variant: the message does not echo the value
UnknownActionNoValue(domain, action) == <<S("Unknown "), S(domain), S(" action")>>

\* message of the default branch of an action switch
UnknownAction(domain, action) == <<S("Unknown "), S(domain), S(" action: "), V(action)>>

(* ---------------------------------------------------------------------- *)
(* Project analysis (project-manager.ts)                                   *)
(* ---------------------------------------------------------------------- *)
performProjectOverview(projectPath) ==
    Resolved(<<S("ReadyAPI Project Analysis - Overview"), S("Project Path: "),
               V(projectPath), S("Project Summary: ... subsequent iterations.")>>)

analyzeTestCoverage(projectPath) ==
    Resolved(<<S("ReadyAPI Test Coverage Analysis"), S("Project: "),
               V(projectPath), S("Test Coverage Metrics: ... coverage reports")>>)

analyzeEndpointHealth(projectPath) ==
    Resolved(<<S("ReadyAPI Endpoint Health Analysis"), S("Project: "),
               V(projectPath), S("Endpoint Health Status: ...")>>)

analyzePerformanceMetrics(projectPath) ==
    Resolved(<<S("ReadyAPI Performance Metrics Analysis"), S("Project: "),
               V(projectPath), S("Performance Overview: ... performance reporting")>>)

\* prefix of the catch block of analyzeProject
AnalyzePrefix == <<S("Error "), S("analyzing "), S("ReadyAPI project"), S(": ")>>

\* synchronous part of analyzeProject: up to the first await, or to its return
analyzeProject(args, now) ==
    IF ~args.present THEN GroupRejected(DestructureError)
    ELSE LET projectPath == args.f.projectPath
             analysisType == Default(args.f.analysisType, Str("overview"))
         IN  IF InvalidProjectPath(projectPath)
             THEN GroupSettled(Envelope(AnalyzePrefix \o ProjectPathRequired))
             ELSE CASE analysisType = Str("overview") ->
                         GroupAwaiting("performProjectOverview", performProjectOverview(projectPath))
                    [] analysisType = Str("test_coverage") ->
                         GroupAwaiting("analyzeTestCoverage", analyzeTestCoverage(projectPath))
                    [] analysisType = Str("endpoint_health") ->
                         GroupAwaiting("analyzeEndpointHealth", analyzeEndpointHealth(projectPath))
                    [] analysisType = Str("performance_metrics") ->
                         GroupAwaiting("analyzePerformanceMetrics", analyzePerformanceMetrics(projectPath))
                    [] OTHER ->
                         GroupSettled(Envelope(AnalyzePrefix
                             \o <<S("Unknown "), S("analysis"), S(" type: "), V(analysisType)>>))

(* ---------------------------------------------------------------------- *)
(* Test execution (project-manager.ts)                                     *)
(* ---------------------------------------------------------------------- *)
\* variant: every value but "gui" gets the headless rendering
CommandLineHeadlessUnlessGui(projectPath, testSuitePath, environment, testRunner) ==
    IF testRunner /= Str("gui")
    THEN <<S("testrunner.bat -s\""), V(testSuitePath), S("\" -e\""), V(environment),
           S("\" \""), V(projectPath), S("\"")>>
    ELSE <<S("ReadyAPI GUI execution with suite: "), V(testSuitePath)>>

\* variant: the report always shows the GUI rendering
CommandLineGuiOnly(projectPath, testSuitePath, environment, testRunner) ==
    <<S("ReadyAPI GUI execution with suite: "), V(testSuitePath)>>

\* the "Command Line Equivalent" line of the execution report
CommandLine(projectPath, testSuitePath, environment, testRunner) ==
    IF testRunner = Str("headless")
    THEN <<S("testrunner.bat -s\""), V(testSuitePath), S("\" -e\""), V(environment),
           S("\" \""), V(projectPath), S("\"")>>
    ELSE <<S("ReadyAPI GUI execution with suite: "), V(testSuitePath)>>

performTestExecution(projectPath, testSuitePath, environment, testRunner, now) ==
    Resolved(<<S("ReadyAPI Test Suite Execution Report"),
               S("- Project: "), V(projectPath),
               S("- Test Suite: "), V(testSuitePath),
               S("- Environment: "), V(environment),
               S("- Test Runner: "), V(testRunner),
               S("- Started: "), T(now),
               S("Execution Steps: ... Command Line Equivalent:")>>
             \o CommandLine(projectPath, testSuitePath, environment, testRunner)
             \o <<S("Note: This is a foundational implementation. ...")>>)

\* prefix of the catch block of executeTestSuite
ExecutePrefix == <<S("Error "), S("executing "), S("ReadyAPI test suite"), S(": ")>>

TestSuitePathRequired == <<S("Test suite path is required and must be a string")>>

\* variant: the suite path is validated before the project path
executeTestSuiteSuiteFirst(args, now) ==
    IF ~args.present THEN GroupRejected(DestructureError)
    ELSE LET projectPath == args.f.projectPath
             testSuitePath == args.f.testSuitePath
             environment == Default(args.f.environment, Str("default"))
             testRunner == Default(args.f.testRunner, Str("headless"))
         IN  IF ~Truthy(testSuitePath) \/ TypeOf(testSuitePath) /= "string"
             THEN GroupSettled(Envelope(ExecutePrefix \o TestSuitePathRequired))
             ELSE IF InvalidProjectPath(projectPath)
             THEN GroupSettled(Envelope(ExecutePrefix \o ProjectPathRequired))
             ELSE GroupAwaiting("performTestExecution",
                      performTestExecution(projectPath, testSuitePath, environment, testRunner, now))

\* synchronous part of executeTestSuite
executeTestSuite(args, now) ==
    IF ~args.present THEN GroupRejected(DestructureError)
    ELSE LET projectPath == args.f.projectPath
             testSuitePath == args.f.testSuitePath
             environment == Default(args.f.environment, Str("default"))
             testRunner == Default(args.f.testRunner, Str("headless"))
         IN  IF InvalidProjectPath(projectPath)
             THEN GroupSettled(Envelope(ExecutePrefix \o ProjectPathRequired))
             ELSE IF ~Truthy(testSuitePath) \/ TypeOf(testSuitePath) /= "string"
             THEN GroupSettled(Envelope(ExecutePrefix \o TestSuitePathRequired))
             ELSE GroupAwaiting("performTestExecution",
                      performTestExecution(projectPath, testSuitePath, environment, testRunner, now))

(* ---------------------------------------------------------------------- *)
(* SOAP services (project-manager.ts)                                      *)
(* ---------------------------------------------------------------------- *)
importWsdl(projectPath, wsdlUrl, now) ==
    IF ~Truthy(wsdlUrl)
    THEN Rejected(<<S("WSDL URL is required for import operation")>>)
    ELSE Resolved(<<S("SOAP WSDL Import Operation"),
                    S("- Project: "), V(projectPath),
                    S("- WSDL URL: "), V(wsdlUrl),
                    S("- Timestamp: "), T(now),
                    S("Import Process: ... WS-Security configurations")>>)

\* variant: the operation name is checked before the service name
createSoapRequestOperationFirst(projectPath, serviceName, operationName) ==
    IF ~Truthy(operationName)
    THEN Rejected(<<S("Operation name is required for creating SOAP request")>>)
    ELSE IF ~Truthy(serviceName)
    THEN Rejected(<<S("Service name is required for creating SOAP request")>>)
    ELSE Resolved(<<S("SOAP Request Creation")>>)

createSoapRequest(projectPath, serviceName, operationName) ==
    IF ~Truthy(serviceName)
    THEN Rejected(<<S("Service name is required for creating SOAP request")>>)
    ELSE IF ~Truthy(operationName)
    THEN Rejected(<<S("Operation name is required for creating SOAP request")>>)
    ELSE Resolved(<<S("SOAP Request Creation"),
                    S("- Project: "), V(projectPath),
                    S("- Service: "), V(serviceName),
                    S("- Operation: "), V(operationName),
                    S("Request Template: ... <tem:"), V(operationName),
                    S("> ... </tem:"), V(operationName),
                    S("> ... SOAPAction: \"http://tempuri.org/"), V(operationName),
                    S("\" ... Security configuration options")>>)

validateSoapResponse(projectPath, serviceName, operationName) ==
    Resolved(<<S("SOAP Response Validation"),
               S("- Project: "), V(projectPath),
               S("- Service: "), V(OrElse(serviceName, Str("All Services"))),
               S("- Operation: "), V(OrElse(operationName, Str("All Operations"))),
               S("Validation Checks: ... 1. XPath: //soap:Body/"), V(serviceName),
               S("Response ... Implementation features: ...")>>)

updateSoapEndpoint(projectPath, serviceName) ==
    Resolved(<<S("SOAP Endpoint Update"),
               S("- Project: "), V(projectPath),
               S("- Service: "), V(OrElse(serviceName, Str("All Services"))),
               S("Current Configuration: ... Implementation will support: ...")>>)

\* prefix of the catch block of manageSoapServices
SoapPrefix == <<S("Error "), S("managing "), S("SOAP services"), S(": ")>>

\* synchronous part of manageSoapServices
manageSoapServices(args, now) ==
    IF ~args.present THEN GroupRejected(DestructureError)
    ELSE LET projectPath == args.f.projectPath
             action == args.f.action
             wsdlUrl == args.f.wsdlUrl
             serviceName == args.f.serviceName
             operationName == args.f.operationName
         IN  IF InvalidProjectPath(projectPath)
             THEN GroupSettled(Envelope(SoapPrefix \o ProjectPathRequired))
             ELSE IF ~Truthy(action)
             THEN GroupSettled(Envelope(SoapPrefix \o ActionRequired))
             ELSE CASE action = Str("import_wsdl") ->
                         GroupAwaiting("importWsdl", importWsdl(projectPath, wsdlUrl, now))
                    [] action = Str("create_request") ->
                         GroupAwaiting("createSoapRequest",
                             createSoapRequest(projectPath, serviceName, operationName))
                    [] action = Str("validate_response") ->
                         GroupAwaiting("validateSoapResponse",
                             validateSoapResponse(projectPath, serviceName, operationName))
                    [] action = Str("update_endpoint") ->
                         GroupAwaiting("updateSoapEndpoint", updateSoapEndpoint(projectPath, serviceName))
                    [] OTHER ->
                         GroupSettled(Envelope(SoapPrefix
                             \o UnknownAction("SOAP", action)))

(* ---------------------------------------------------------------------- *)
(* Assertions (project-manager.ts)                                         *)
(* ---------------------------------------------------------------------- *)
generateAssertionTemplate(assertionType, expectedValue) ==
    CASE assertionType = Str("xpath") ->
           <<S("XPath Assertion:"), S("- Expected Value: "),
             V(OrElse(expectedValue, Str("John Doe"))), S("- Match Type: Exact Match ...")>>
      [] assertionType = Str("jsonpath") ->
           <<S("JSONPath Assertion:"), S("- Expected Value: "),
             V(OrElse(expectedValue, Str("John Doe"))), S("- Match Type: Exact Match ...")>>
      [] assertionType = Str("response_time") ->
           <<S("Response Time Assertion:"), S("- Maximum Time: "),
             V(OrElse(expectedValue, Str("2000"))), S("ms ... Include in Reports: Yes")>>
      [] assertionType = Str("status_code") ->
           <<S("Status Code Assertion:"), S("- Expected Code: "),
             V(OrElse(expectedValue, Str("200"))), S("- Allowed Codes: 200, 201, 202 ...")>>
      [] assertionType = Str("schema_validation") ->
           <<S("Schema Validation Assertion:"), S("- Schema Source: "),
             V(OrElse(expectedValue, Str("Inline definition"))), S("- Strict Validation: Yes ...")>>
      [] OTHER ->
           <<S("Custom Assertion:"), S("- Type: "), V(assertionType),
             S("- Configuration: "), V(OrElse(expectedValue, Str("To be defined"))),
             S("- Validation Logic: Custom implementation required")>>

createAssertion(projectPath, testStepName, assertionType, expectedValue, now) ==
    IF ~Truthy(testStepName)
    THEN Rejected(<<S("Test step name is required for creating assertion")>>)
    ELSE IF ~Truthy(assertionType)
    THEN Rejected(<<S("Assertion type is required")>>)
    ELSE Resolved(<<S("Assertion Creation"),
                    S("- Project: "), V(projectPath),
                    S("- Test Step: "), V(testStepName),
                    S("- Assertion Type: "), V(assertionType),
                    S("- Expected Value: "), V(OrElse(expectedValue, Str("To be configured"))),
                    S("- Created: "), T(now),
                    S("Assertion Configuration:")>>
                  \o generateAssertionTemplate(assertionType, expectedValue)
                  \o <<S("Assertion Features: ... Implementation includes: ...")>>)

validateResponse(projectPath, testStepName, now) ==
    Resolved(<<S("Response Validation Report"),
               S("- Project: "), V(projectPath),
               S("- Test Step: "), V(OrElse(testStepName, Str("All test steps"))),
               S("- Validation Time: "), T(now),
               S("Assertion Results: ... Implementation features: ...")>>)

updateAssertion(projectPath, testStepName, assertionType, expectedValue) ==
    Resolved(<<S("Assertion Update"),
               S("- Project: "), V(projectPath),
               S("- Test Step: "), V(OrElse(testStepName, Str("Specified step"))),
               S("- Assertion Type: "), V(OrElse(assertionType, Str("All types"))),
               S("- New Expected Value: "), V(OrElse(expectedValue, Str("To be updated"))),
               S("Update Operations: ... Implementation includes: ...")>>)

listAssertions(projectPath, testStepName) ==
    Resolved(<<S("Assertion Inventory"),
               S("- Project: "), V(projectPath),
               S("- Test Step: "), V(OrElse(testStepName, Str("All test steps"))),
               S("Active Assertions: ... Implementation features: ...")>>)

\* prefix of the catch block of manageAssertions
AssertionPrefix == <<S("Error "), S("managing "), S("assertions"), S(": ")>>

\* synchronous part of manageAssertions
manageAssertions(args, now) ==
    IF ~args.present THEN GroupRejected(DestructureError)
    ELSE LET projectPath == args.f.projectPath
             action == args.f.action
             testStepName == args.f.testStepName
             assertionType == args.f.assertionType
             expectedValue == args.f.expectedValue
         IN  IF InvalidProjectPath(projectPath)
             THEN GroupSettled(Envelope(AssertionPrefix \o ProjectPathRequired))
             ELSE IF ~Truthy(action)
             THEN GroupSettled(Envelope(AssertionPrefix \o ActionRequired))
             ELSE CASE action = Str("create_assertion") ->
                         GroupAwaiting("createAssertion",
                             createAssertion(projectPath, testStepName, assertionType, expectedValue, now))
                    [] action = Str("validate_response") ->
                         GroupAwaiting("validateResponse", validateResponse(projectPath, testStepName, now))
                    [] action = Str("update_assertion") ->
                         GroupAwaiting("updateAssertion",
                             updateAssertion(projectPath, testStepName, assertionType, expectedValue))
                    [] action = Str("list_assertions") ->
                         GroupAwaiting("listAssertions", listAssertions(projectPath, testStepName))
                    [] OTHER ->
                         GroupSettled(Envelope(AssertionPrefix
                             \o UnknownAction("assertion", action)))

(* ---------------------------------------------------------------------- *)
(* REST services (rest-helper.ts)                                          *)
(* ---------------------------------------------------------------------- *)
\* new URL(x): an absolute URL is a scheme symbol, "//", a host symbol and
\* the rest; anything else makes the constructor throw TypeError
URLSchemes == {"http:", "https:"}
IsURL(syms) == Len(syms) >= 3 /\ syms[1] \in URLSchemes /\ syms[2] = "//"
URLHost(syms) == <<syms[3]>>

\* the request body of the generated request
RequestBody(httpMethod) ==
    IF httpMethod /= Str("GET") /\ httpMethod /= Str("DELETE")
    THEN <<S("{ \"parameter1\": \"value1\", \"parameter2\": \"value2\" }")>>
    ELSE <<>>

createRestRequest(projectPath, endpoint, method, now) ==
    IF ~Truthy(endpoint)
    THEN Rejected(<<S("Endpoint URL is required for creating REST request")>>)
    ELSE LET httpMethod == OrElse(method, Str("GET"))
         IN  IF ~IsURL(ToStr(endpoint))
             THEN Rejected(<<S("Invalid URL")>>)
             ELSE Resolved(<<S("REST API Request Creation"),
                             S("- Project: "), V(projectPath),
                             S("- Endpoint: "), V(endpoint),
                             S("- HTTP Method: "), V(httpMethod),
                             S("- Timestamp: "), T(now),
                             S("- URL: "), V(endpoint),
                             S("- Method: "), V(httpMethod),
                             S("Request Structure:"), V(httpMethod), S(" "), V(endpoint),
                             S(" HTTP/1.1 Host: "),
                             [k |-> "str", v |-> URLHost(ToStr(endpoint)), t |-> 0],
                             S("Content-Type: ... Authorization: Bearer <token>")>>
                           \o RequestBody(httpMethod)
                           \o <<S("Generated Components: ... Comprehensive error handling")>>)

importSwaggerSpec(projectPath, swaggerUrl) ==
    IF ~Truthy(swaggerUrl)
    THEN Rejected(<<S("Swagger/OpenAPI specification URL is required")>>)
    ELSE Resolved(<<S("OpenAPI/Swagger Import Operation"),
                    S("- Project: "), V(projectPath),
                    S("- Swagger URL: "), V(swaggerUrl),
                    S("- Format: OpenAPI 3.0/Swagger 2.0 ...")>>)

\* variant: the report reads the clock a second time
validateRestEndpointTwoReadings(projectPath, endpoint, now) ==
    IF ~Truthy(endpoint)
    THEN Rejected(<<S("Endpoint URL is required for validation")>>)
    ELSE Resolved(<<S("REST Endpoint Validation"),
                    S("- Project: "), V(projectPath),
                    S("- Endpoint: "), V(endpoint),
                    S("- Validation Time: "), T(now),
                    S("Health Check Results: ..."), T(now)>>)

validateRestEndpoint(projectPath, endpoint, now) ==
    IF ~Truthy(endpoint)
    THEN Rejected(<<S("Endpoint URL is required for validation")>>)
    ELSE Resolved(<<S("REST Endpoint Validation"),
                    S("- Project: "), V(projectPath),
                    S("- Endpoint: "), V(endpoint),
                    S("- Validation Time: "), T(now),
                    S("Health Check Results: ...")>>)

testAuthentication(projectPath, endpoint) ==
    Resolved(<<S("REST Authentication Testing"),
               S("- Project: "), V(projectPath),
               S("- Endpoint: "), V(OrElse(endpoint, Str("Project endpoints"))),
               S("Authentication Methods: ...")>>)

\* prefix of the catch block of manageRestServices
RestPrefix == <<S("Error "), S("managing "), S("REST services"), S(": ")>>

\* synchronous part of manageRestServices
manageRestServices(args, now) ==
    IF ~args.present THEN GroupRejected(DestructureError)
    ELSE LET projectPath == args.f.projectPath
             action == args.f.action
             endpoint == args.f.endpoint
             method == args.f.method
             swaggerUrl == args.f.swaggerUrl
         IN  IF InvalidProjectPath(projectPath)
             THEN GroupSettled(Envelope(RestPrefix \o ProjectPathRequired))
             ELSE IF ~Truthy(action)
             THEN GroupSettled(Envelope(RestPrefix \o ActionRequired))
             ELSE CASE action = Str("create_request") ->
                         GroupAwaiting("createRestRequest",
                             createRestRequest(projectPath, endpoint, method, now))
                    [] action = Str("import_swagger") ->
                         GroupAwaiting("importSwaggerSpec", importSwaggerSpec(projectPath, swaggerUrl))
                    [] action = Str("validate_endpoint") ->
                         GroupAwaiting("validateRestEndpoint",
                             validateRestEndpoint(projectPath, endpoint, now))
                    [] action = Str("test_auth") ->
                         GroupAwaiting("testAuthentication", testAuthentication(projectPath, endpoint))
                    [] OTHER ->
                         GroupSettled(Envelope(RestPrefix
                             \o UnknownAction("REST", action)))

(* ---------------------------------------------------------------------- *)
(* Test data (rest-helper.ts)                                              *)
(* ---------------------------------------------------------------------- *)
\* String.prototype.toUpperCase, symbol by symbol
UpperTable ==
    << <<"excel", "EXCEL">>, <<"csv", "CSV">>, <<"database", "DATABASE">>,
       <<"xml", "XML">>, <<"json", "JSON">>, <<"yaml", "YAML">> >>
UpperSym(c) ==
    IF \E i \in DOMAIN UpperTable : UpperTable[i][1] = c
    THEN UpperTable[CHOOSE i \in DOMAIN UpperTable : UpperTable[i][1] = c][2]
    ELSE c
toUpperCase(syms) == [i \in DOMAIN syms |-> UpperSym(syms[i])]

generateDataSourceTemplate(dataSourceType, filePath) ==
    CASE dataSourceType = Str("excel") ->
           <<S("Excel Data Source:"), S("- File Path: "),
             V(OrElse(filePath, Str("data/test-data.xlsx"))), S("- Worksheet: Sheet1 ...")>>
      [] dataSourceType = Str("csv") ->
           <<S("CSV Data Source:"), S("- File Path: "),
             V(OrElse(filePath, Str("data/test-data.csv"))), S("- Delimiter: Comma (,) ...")>>
      [] dataSourceType = Str("database") ->
           <<S("Database Data Source:"), S("- Connection: To be configured ...")>>
      [] dataSourceType = Str("xml") ->
           <<S("XML Data Source:"), S("- File Path: "),
             V(OrElse(filePath, Str("data/test-data.xml"))), S("- Root Element: testData ...")>>
      [] dataSourceType = Str("json") ->
           <<S("JSON Data Source:"), S("- File Path: "),
             V(OrElse(filePath, Str("data/test-data.json"))), S("- Array Path: $.users ...")>>
      [] OTHER ->
           <<S("Custom Data Source:"), S("- Type: "), V(dataSourceType),
             S("- Configuration: To be defined ...")>>

\* variant: a type outside the advertised enum is rejected
createDataSourceEnumEnforced(projectPath, dataSourceType, filePath, now) ==
    IF ~Truthy(dataSourceType)
    THEN Rejected(<<S("Data source type is required")>>)
    ELSE IF TypeOf(dataSourceType) /= "string"
    THEN Rejected(NotAFunction("dataSourceType.toUpperCase"))
    ELSE IF dataSourceType \notin {Str("excel"), Str("csv"), Str("database"), Str("xml"), Str("json")}
    THEN Rejected(<<S("Unknown data source type: "), V(dataSourceType)>>)
    ELSE Resolved(<<S("Data Source Creation"),
                    S("- Project: "), V(projectPath),
                    S("- Type: "), [k |-> "str", v |-> toUpperCase(dataSourceType.s), t |-> 0],
                    S("- Source File: "), V(OrElse(filePath, Str("To be configured"))),
                    S("- Created: "), T(now),
                    S("Data Source Configuration:")>>
                  \o generateDataSourceTemplate(dataSourceType, filePath)
                  \o <<S("Data Source Features: ... Performance optimization")>>)

createDataSource(projectPath, dataSourceType, filePath, now) ==
    IF ~Truthy(dataSourceType)
    THEN Rejected(<<S("Data source type is required")>>)
    ELSE IF TypeOf(dataSourceType) /= "string"
    THEN Rejected(NotAFunction("dataSourceType.toUpperCase"))
    ELSE Resolved(<<S("Data Source Creation"),
                    S("- Project: "), V(projectPath),
                    S("- Type: "), [k |-> "str", v |-> toUpperCase(dataSourceType.s), t |-> 0],
                    S("- Source File: "), V(OrElse(filePath, Str("To be configured"))),
                    S("- Created: "), T(now),
                    S("Data Source Configuration:")>>
                  \o generateDataSourceTemplate(dataSourceType, filePath)
                  \o <<S("Data Source Features: ... Performance optimization")>>)

\* variant: the import does not require the file path
importExcelDataUnchecked(projectPath, filePath, now) ==
    Resolved(<<S("Excel Data Import"),
               S("- Project: "), V(projectPath),
               S("- File: "), V(filePath),
               S("- Import Time: "), T(now),
               S("Import Process: ... Performance optimization")>>)

importExcelData(projectPath, filePath, now) ==
    IF ~Truthy(filePath)
    THEN Rejected(<<S("Excel file path is required for import")>>)
    ELSE Resolved(<<S("Excel Data Import"),
                    S("- Project: "), V(projectPath),
                    S("- File: "), V(filePath),
                    S("- Import Time: "), T(now),
                    S("Import Process: ... Performance optimization")>>)

\* String.prototype.toLowerCase of one character, for the /i flag
LowerTable ==
    << <<"P", "p">>, <<"A", "a">>, <<"S", "s">>, <<"W", "w">>,
       <<"O", "o">>, <<"R", "r">>, <<"D", "d">> >>
LowerSym(c) ==
    IF \E i \in DOMAIN LowerTable : LowerTable[i][1] = c
    THEN LowerTable[CHOOSE i \in DOMAIN LowerTable : LowerTable[i][1] = c][2]
    ELSE c

\* the literal part of /password=[^;]+/i, and the replacement 'password=***'
PasswordKey == <<"p", "a", "s", "s", "w", "o", "r", "d", "=">>
PasswordMask == PasswordKey \o <<"*", "*", "*">>

\* variant: the regular expression has no i flag
MatchesAtCaseSensitive(cs, i) ==
    /\ i + Len(PasswordKey) <= Len(cs)
    /\ \A j \in DOMAIN PasswordKey : cs[i + j - 1] = PasswordKey[j]
    /\ cs[i + Len(PasswordKey)] /= ";"

\* the regular expression matches at position i of the character sequence
MatchesAt(cs, i) ==
    /\ i + Len(PasswordKey) <= Len(cs)
    /\ \A j \in DOMAIN PasswordKey : LowerSym(cs[i + j - 1]) = PasswordKey[j]
    /\ cs[i + Len(PasswordKey)] /= ";"

\* last position of the greedy match of [^;]+ that starts at position b
RECURSIVE MatchEnd(_, _)
MatchEnd(cs, b) ==
    IF b < Len(cs) /\ cs[b + 1] /= ";" THEN MatchEnd(cs, b + 1) ELSE b

\* cs.replace(/password=[^;]+/i, 'password=***'): the first match only
RedactPassword(cs) ==
    IF \E i \in DOMAIN cs : MatchesAt(cs, i)
    THEN LET i == CHOOSE a \in DOMAIN cs :
                      MatchesAt(cs, a) /\ \A b \in 1..(a - 1) : ~MatchesAt(cs, b)
             e == MatchEnd(cs, i + Len(PasswordKey))
         IN  SubSeq(cs, 1, i - 1) \o PasswordMask \o SubSeq(cs, e + 1, Len(cs))
    ELSE cs

createDatabaseConnection(projectPath, connectionString, now) ==
    IF ~Truthy(connectionString)
    THEN Rejected(<<S("Database connection string is required")>>)
    ELSE IF TypeOf(connectionString) /= "string"
    THEN Rejected(NotAFunction("connectionString.replace"))
    ELSE Resolved(<<S("Database Connection Setup"),
                    S("- Project: "), V(projectPath),
                    S("- Connection String: "),
                    [k |-> "str", v |-> RedactPassword(connectionString.s), t |-> 0],
                    S("- Connection Time: "), T(now),
                    S("Connection Process: ...")>>)

generateTestData(projectPath, dataSourceType, now) ==
    Resolved(<<S("Test Data Generation"),
               S("- Project: "), V(projectPath),
               S("- Data Type: "), V(OrElse(dataSourceType, Str("Mixed formats"))),
               S("- Generation Time: "), T(now),
               S("Generation Process: ...")>>)

\* prefix of the catch block of manageTestData
DataPrefix == <<S("Error "), S("managing "), S("test data"), S(": ")>>

\* variant: the action is checked before the project path
manageTestDataActionFirst(args, now) ==
    IF ~args.present THEN GroupRejected(DestructureError)
    ELSE LET projectPath == args.f.projectPath
             action == args.f.action
             dataSourceType == args.f.dataSourceType
             filePath == args.f.filePath
             connectionString == args.f.connectionString
         IN  IF ~Truthy(action)
             THEN GroupSettled(Envelope(DataPrefix \o ActionRequired))
             ELSE IF InvalidProjectPath(projectPath)
             THEN GroupSettled(Envelope(DataPrefix \o ProjectPathRequired))
             ELSE CASE action = Str("create_datasource") ->
                         GroupAwaiting("createDataSource",
                             createDataSource(projectPath, dataSourceType, filePath, now))
                    [] action = Str("import_excel") ->
                         GroupAwaiting("importExcelData", importExcelData(projectPath, filePath, now))
                    [] action = Str("create_database_connection") ->
                         GroupAwaiting("createDatabaseConnection",
                             createDatabaseConnection(projectPath, connectionString, now))
                    [] action = Str("generate_test_data") ->
                         GroupAwaiting("generateTestData",
                             generateTestData(projectPath, dataSourceType, now))
                    [] OTHER ->
                         GroupSettled(Envelope(DataPrefix
                             \o UnknownAction("data management", action)))

\* synchronous part of manageTestData
manageTestData(args, now) ==
    IF ~args.present THEN GroupRejected(DestructureError)
    ELSE LET projectPath == args.f.projectPath
             action == args.f.action
             dataSourceType == args.f.dataSourceType
             filePath == args.f.filePath
             connectionString == args.f.connectionString
         IN  IF InvalidProjectPath(projectPath)
             THEN GroupSettled(Envelope(DataPrefix \o ProjectPathRequired))
             ELSE IF ~Truthy(action)
             THEN GroupSettled(Envelope(DataPrefix \o ActionRequired))
             ELSE CASE action = Str("create_datasource") ->
                         GroupAwaiting("createDataSource",
                             createDataSource(projectPath, dataSourceType, filePath, now))
                    [] action = Str("import_excel") ->
                         GroupAwaiting("importExcelData", importExcelData(projectPath, filePath, now))
                    [] action = Str("create_database_connection") ->
                         GroupAwaiting("createDatabaseConnection",
                             createDatabaseConnection(projectPath, connectionString, now))
                    [] action = Str("generate_test_data") ->
                         GroupAwaiting("generateTestData",
                             generateTestData(projectPath, dataSourceType, now))
                    [] OTHER ->
                         GroupSettled(Envelope(DataPrefix
                             \o UnknownAction("data management", action)))

(* ---------------------------------------------------------------------- *)
(* The dispatcher (index.ts)                                               *)
(* ---------------------------------------------------------------------- *)
\* variant: the switch has no case for the test-data tool
ToolNamesWithoutTestData ==
    {"readyapi_analyze_project", "readyapi_execute_test_suite",
     "readyapi_manage_soap_services", "readyapi_manage_rest_services",
     "readyapi_manage_assertions"}

\* the case labels of the switch on the tool name
ToolNames ==
    {"readyapi_analyze_project", "readyapi_execute_test_suite",
     "readyapi_manage_soap_services", "readyapi_manage_rest_services",
     "readyapi_manage_assertions", "readyapi_manage_test_data"}

\* the handler group each case calls
GroupOf(name) ==
    CASE name = "readyapi_analyze_project" -> "analyzeProject"
      [] name = "readyapi_execute_test_suite" -> "executeTestSuite"
      [] name = "readyapi_manage_soap_services" -> "manageSoapServices"
      [] name = "readyapi_manage_rest_services" -> "manageRestServices"
      [] name = "readyapi_manage_assertions" -> "manageAssertions"
      [] name = "readyapi_manage_test_data" -> "manageTestData"
      [] OTHER -> "none"

\* the call of a handler group: its synchronous part
GroupEnter(fn, args, now) ==
    CASE fn = "analyzeProject" -> analyzeProject(args, now)
      [] fn = "executeTestSuite" -> executeTestSuite(args, now)
      [] fn = "manageSoapServices" -> manageSoapServices(args, now)
      [] fn = "manageRestServices" -> manageRestServices(args, now)
      [] fn = "manageAssertions" -> manageAssertions(args, now)
      [] OTHER -> manageTestData(args, now)

\* the prefix each group's catch block puts before the error message
PrefixOf(fn) ==
    CASE fn = "analyzeProject" -> AnalyzePrefix
      [] fn = "executeTestSuite" -> ExecutePrefix
      [] fn = "manageSoapServices" -> SoapPrefix
      [] fn = "manageRestServices" -> RestPrefix
      [] fn = "manageAssertions" -> AssertionPrefix
      [] OTHER -> DataPrefix

\* a handler group resumes after `await leaf(...)`: it returns the leaf's text
\* in an envelope, or its catch block returns the leaf's error in an envelope
GroupResume(fn, out) ==
    IF out.ok THEN Envelope(out.text) ELSE Envelope(PrefixOf(fn) \o out.text)

\* message of the Error thrown by the default case
UnknownTool(name) == <<S("Unknown tool: "), S(name)>>

\* variant: the catch block does not flag the envelope
DispatcherCatchNoFlag(name, message) ==
    [content |-> <<[type |-> "text",
                    text |-> <<S("Error executing "), S(name), S(": ")>> \o message]>>,
     isError |-> "unset"]

\* the envelope the dispatcher's catch block returns
DispatcherCatch(name, message) ==
    [content |-> <<[type |-> "text",
                    text |-> <<S("Error executing "), S(name), S(": ")>> \o message]>>,
     isError |-> "true"]

\* variant: the constants are bound by the first call and kept
BindOnce(old, params) == IF old.name = "" /\ ~old.args.present THEN params ELSE old

\* const { name, arguments: args } = request.params: fresh constants per call
Bind(old, params) == params

\* variant: one closure is shared by all calls
SharedFrame(c) == 1

\* the closure that holds the constants of call c: one per call
Frame(c) == c

\* a tool descriptor of the discovery list: its name, the fields its schema
\* accepts, the enum values the schema allows per field, the required fields
Tool(name, properties, enums, required) ==
    [name |-> name, properties |-> properties, enums |-> enums, required |-> required]

\* the pairs <<field, value>> of an enum
Enum(field, values) == {<<field, v>> : v \in values}

\* the discriminator enums the schemas advertise
AnalysisTypes == {"overview", "test_coverage", "endpoint_health", "performance_metrics"}
SoapActions == {"import_wsdl", "create_request", "validate_response", "update_endpoint"}

\* variant: the REST schema advertises one more action
RestActionsWithExtra ==
    {"create_request", "import_swagger", "validate_endpoint", "test_auth", "bogus"}

RestActions == {"create_request", "import_swagger", "validate_endpoint", "test_auth"}
AssertionActions == {"create_assertion", "validate_response", "update_assertion", "list_assertions"}
DataActions ==
    {"create_datasource", "import_excel", "create_database_connection", "generate_test_data"}

\* the list the ListToolsRequestSchema handler returns
ListToolsResult ==
    <<Tool("readyapi_analyze_project", {"projectPath", "analysisType"},
           Enum("analysisType", AnalysisTypes),
           {"projectPath"}),
      Tool("readyapi_execute_test_suite",
           {"projectPath", "testSuitePath", "environment", "testRunner"},
           Enum("testRunner", {"gui", "headless"}),
           {"projectPath", "testSuitePath"}),
      Tool("readyapi_manage_soap_services",
           {"projectPath", "action", "wsdlUrl", "serviceName", "operationName"},
           Enum("action", SoapActions),
           {"projectPath", "action"}),
      Tool("readyapi_manage_rest_services",
           {"projectPath", "action", "endpoint", "method", "swaggerUrl"},
           Enum("action", RestActions)
               \cup Enum("method", {"GET", "POST", "PUT", "DELETE", "PATCH"}),
           {"projectPath", "action"}),
      Tool("readyapi_manage_assertions",
           {"projectPath", "action", "testStepName", "assertionType", "expectedValue"},
           Enum("action", AssertionActions)
               \cup Enum("assertionType",
                         {"xpath", "jsonpath", "response_time", "status_code", "schema_validation"}),
           {"projectPath", "action"}),
      Tool("readyapi_manage_test_data",
           {"projectPath", "action", "dataSourceType", "filePath", "connectionString"},
           Enum("action", DataActions)
               \cup Enum("dataSourceType", {"excel", "csv", "database", "xml", "json"}),
           {"projectPath", "action"})>>

(* ---------------------------------------------------------------------- *)
(* Requests the host sends                                                 *)
(* ---------------------------------------------------------------------- *)
\* every field some handler group destructures from its argument
Fields ==
    {"projectPath", "analysisType", "testSuitePath", "environment", "testRunner",
     "action", "wsdlUrl", "serviceName", "operationName", "endpoint", "method",
     "swaggerUrl", "testStepName", "assertionType", "expectedValue",
     "dataSourceType", "filePath", "connectionString"}

\* an argument bag with the given fields; reading any other field gives undefined
Bag(r) == [present |-> TRUE,
           f |-> [x \in Fields |-> IF x \in DOMAIN r THEN r[x] ELSE Undefined]]

\* a request without `arguments`
NoBag == [present |-> FALSE, f |-> [x \in Fields |-> Undefined]]

GoodPath == Str("/p.xml")
BadPaths == {Undefined, Null, Str(""), Num(5), Bool(TRUE), Bool(FALSE), Obj}
BadActions == {Undefined, Null, Str(""), Str("bogus"), Num(5)}

\* connection strings, character by character
ConnWithPassword ==
    StrOf(<<"u", "=", "a", ";", "P", "a", "s", "s", "w", "o", "r", "d", "=", "s", "3", ";", "d", "=", "x">>)
ConnWithoutPassword == StrOf(<<"u", "=", "a", ";", "d", "=", "x">>)
ConnWithEmptyPassword ==
    StrOf(<<"p", "a", "s", "s", "w", "o", "r", "d", "=", ";", "d", "=", "x">>)
ConnEmptyThenPassword ==
    StrOf(<<"p", "a", "s", "s", "w", "o", "r", "d", "=", ";",
            "P", "a", "s", "s", "w", "o", "r", "d", "=", "t", "4">>)
ConnWithTwoPasswords ==
    StrOf(<<"p", "a", "s", "s", "w", "o", "r", "d", "=", "s", "3", ";",
            "P", "A", "S", "S", "W", "O", "R", "D", "=", "t", "4">>)

\* endpoints: an absolute URL and a relative one
GoodEndpoint == StrOf(<<"https:", "//", "api.example.com", "/users">>)
RelativeEndpoint == Str("/users")

\* bags whose projectPath fails validation, with and without a discriminator
BadPathBags ==
    {Bag([projectPath |-> p, action |-> a, analysisType |-> a, testSuitePath |-> Str("Suite1")]) :
        p \in BadPaths, a \in {Undefined, Str("bogus")}}

AnalyzeBags ==
    {Bag([projectPath |-> GoodPath, analysisType |-> a]) :
        a \in {Undefined, Null, Str(""), Str("bogus"), Str("overview"), Str("test_coverage"),
               Str("endpoint_health"), Str("performance_metrics")}}

ExecuteBags ==
    {Bag([projectPath |-> GoodPath, testSuitePath |-> x]) : x \in {Undefined, Str(""), Num(5)}}
    \cup {Bag([projectPath |-> p, testSuitePath |-> x]) :
            p \in {Undefined, Num(5)}, x \in {Undefined, Num(5)}}
    \cup {Bag([projectPath |-> GoodPath, testSuitePath |-> Str("Suite1"),
               environment |-> e, testRunner |-> r]) :
            e \in {Undefined, Str("qa")},
            r \in {Undefined, Null, Str(""), Str("headless"), Str("gui"), Str("bogus")}}

BadActionBags == {Bag([projectPath |-> GoodPath, action |-> a]) : a \in BadActions}

SoapBags ==
    {Bag([projectPath |-> GoodPath, action |-> Str("import_wsdl"), wsdlUrl |-> w]) :
        w \in {Undefined, Str("http://example.com/service?wsdl")}}
    \cup {Bag([projectPath |-> GoodPath, action |-> a, serviceName |-> x, operationName |-> o]) :
            a \in {Str("create_request"), Str("validate_response")},
            x \in {Undefined, Str("UserService")}, o \in {Undefined, Str("GetUser")}}
    \cup {Bag([projectPath |-> GoodPath, action |-> Str("update_endpoint"), serviceName |-> x]) :
            x \in {Undefined, Str("UserService")}}

RestBags ==
    {Bag([projectPath |-> GoodPath, action |-> Str("create_request"), endpoint |-> e]) :
        e \in {Undefined, RelativeEndpoint, Num(5)}}
    \cup {Bag([projectPath |-> GoodPath, action |-> Str("create_request"),
               endpoint |-> GoodEndpoint, method |-> m]) :
            m \in {Undefined, Str("GET"), Str("POST"), Str("PUT"), Str("DELETE"), Str("PATCH"),
                   Str("HEAD")}}
    \cup {Bag([projectPath |-> GoodPath, action |-> Str("import_swagger"), swaggerUrl |-> u]) :
            u \in {Undefined, Str("https://api.example.com/swagger.json")}}
    \cup {Bag([projectPath |-> GoodPath, action |-> a, endpoint |-> e]) :
            a \in {Str("validate_endpoint"), Str("test_auth")}, e \in {Undefined, GoodEndpoint}}

AssertionBags ==
    {Bag([projectPath |-> GoodPath, action |-> Str("create_assertion"), assertionType |-> Str("xpath")])}
    \cup {Bag([projectPath |-> GoodPath, action |-> Str("create_assertion"),
               testStepName |-> Str("Login"), assertionType |-> t, expectedValue |-> v]) :
            t \in {Undefined, Str("xpath"), Str("jsonpath"), Str("response_time"),
                   Str("status_code"), Str("schema_validation"), Str("regex")},
            v \in {Undefined, Str("42")}}
    \cup {Bag([projectPath |-> GoodPath, action |-> a, testStepName |-> n]) :
            a \in {Str("validate_response"), Str("list_assertions")},
            n \in {Undefined, Str("Login")}}
    \cup {Bag([projectPath |-> GoodPath, action |-> Str("update_assertion"),
               testStepName |-> n, assertionType |-> n, expectedValue |-> n]) :
            n \in {Undefined, Str("Login")}}

DataBags ==
    {Bag([projectPath |-> GoodPath, action |-> Str("create_datasource"),
          dataSourceType |-> t, filePath |-> p]) :
        t \in {Undefined, Num(5), Str("excel"), Str("csv"), Str("database"), Str("xml"),
               Str("json"), Str("yaml")},
        p \in {Undefined, Str("data/users.xlsx")}}
    \cup {Bag([projectPath |-> GoodPath, action |-> Str("import_excel"), filePath |-> p]) :
            p \in {Undefined, Str("data/users.xlsx")}}
    \cup {Bag([projectPath |-> GoodPath, action |-> Str("create_database_connection"),
               connectionString |-> x]) :
            x \in {Undefined, Num(5), ConnWithPassword, ConnWithoutPassword, ConnWithTwoPasswords,
                   ConnWithEmptyPassword, ConnEmptyThenPassword}}
    \cup {Bag([projectPath |-> GoodPath, action |-> Str("generate_test_data"), dataSourceType |-> t]) :
            t \in {Undefined, Str("csv")}}

\* bags that fail the projectPath check and a leaf's required-field check
BadPathLeafBags(action) ==
    {Bag([projectPath |-> p, action |-> Str(action)]) : p \in {Undefined, Num(5)}}

\* names outside the registry
UnknownNames == {"readyapi_delete_project", "analyze_project"}

Request(name, args) == [name |-> name, args |-> args]

\* the requests of the request-at-a-time specification
Requests ==
    {Request(n, a) : n \in ToolNames, a \in {NoBag} \cup BadPathBags}
    \cup {Request("readyapi_analyze_project", a) : a \in AnalyzeBags}
    \cup {Request("readyapi_execute_test_suite", a) : a \in ExecuteBags}
    \cup {Request(n, a) :
            n \in {"readyapi_manage_soap_services", "readyapi_manage_rest_services",
                   "readyapi_manage_assertions", "readyapi_manage_test_data"},
            a \in BadActionBags}
    \cup {Request("readyapi_manage_soap_services", a) : a \in SoapBags}
    \cup {Request("readyapi_manage_rest_services", a) : a \in RestBags}
    \cup {Request("readyapi_manage_assertions", a) : a \in AssertionBags}
    \cup {Request("readyapi_manage_test_data", a) : a \in DataBags}
    \cup {Request("readyapi_manage_soap_services", a) : a \in BadPathLeafBags("create_request")}
    \cup {Request("readyapi_manage_rest_services", a) : a \in BadPathLeafBags("create_request")}
    \cup {Request("readyapi_manage_assertions", a) : a \in BadPathLeafBags("create_assertion")}
    \cup {Request("readyapi_manage_test_data", a) : a \in BadPathLeafBags("import_excel")}
    \cup {Request(n, a) : n \in UnknownNames,
            a \in {NoBag, Bag([projectPath |-> GoodPath, action |-> Str("import_wsdl")])}}

\* the requests of the concurrent specification: one of each kind of outcome
ConcRequests ==
    {Request("readyapi_analyze_project", NoBag),
     Request("readyapi_delete_project", NoBag),
     Request("readyapi_manage_soap_services", Bag([projectPath |-> GoodPath, action |-> Str("bogus")])),
     Request("readyapi_manage_rest_services",
             Bag([projectPath |-> GoodPath, action |-> Str("create_request"), endpoint |-> RelativeEndpoint])),
     Request("readyapi_manage_test_data",
             Bag([projectPath |-> GoodPath, action |-> Str("import_excel"), filePath |-> Str("data/users.xlsx")]))}

(* ---------------------------------------------------------------------- *)
(* State                                                                   *)
(* ---------------------------------------------------------------------- *)
VARIABLES
    now,    \* the clock new Date() reads
    pc,     \* per call: "idle", "awaitLeaf", "awaitGroup" or "done"
    req,    \* per call: the request as the host sent it
    frame,  \* per closure: the dispatcher's constants name and args
    group,  \* per call: the handler group's invocation and its promise
    resp,   \* per call: the envelope returned to the host
    earlier,    \* history: which kinds of answer the host has already consumed
    overlapped, \* history, per call: another call was in flight during this one
    proc,   \* the process: "starting", "serving", "closing" or "exited"
    exit,   \* the exit status of the process, Running while it runs
    sig,    \* number of SIGINT handlers suspended at `await this.server.close()`
    closed, \* a server.close() promise has resolved
    stderr, \* what console.error has written for the operator
    tools   \* the list the last discovery request was answered with

\* the process and what the operator sees of it
server == <<proc, exit, sig, closed, stderr>>

vars == <<now, pc, req, frame, group, resp, earlier, overlapped, server, tools>>

NoRequest == Request("", NoBag)
NoGroup == [fn |-> "none", args |-> NoBag, st |-> "none", env |-> NoEnvelope,
            leaf |-> "none", out |-> NoOutcome]

\* an answer reports a failure: its text starts with "Error "
IsFailure(env) == env.content /= <<>> /\ Head(env.content[1].text) \in {S("Error "), S("Error executing ")}

\* an envelope with the clock readings of its text blanked
EraseEnvelope(env) ==
    [env EXCEPT !.content = [i \in DOMAIN env.content |->
                                [env.content[i] EXCEPT !.text = Erase(env.content[i].text)]]]

\* the exit status of a process that has not exited
Running == -1

InitCalls(calls) ==
    /\ now = 0
    /\ pc = [c \in calls |-> "idle"]
    /\ req = [c \in calls |-> NoRequest]
    /\ frame = [c \in calls |-> NoRequest]
    /\ group = [c \in calls |-> NoGroup]
    /\ resp = [c \in calls |-> NoEnvelope]
    /\ earlier = [failed |-> FALSE, succeeded |-> FALSE]
    /\ overlapped = [c \in calls |-> FALSE]
    /\ exit = Running
    /\ sig = 0
    /\ closed = FALSE
    /\ tools = <<>>

\* the process after `await this.server.connect(transport)` has resolved
Connected ==
    /\ proc = "serving"
    /\ stderr = {"ReadyAPI MCP Server running on stdio"}

\* the server answers one request at a time
Init == InitCalls({1}) /\ Connected

\* the host keeps up to MaxInFlight calls in flight
InitConc == InitCalls(1..MaxInFlight) /\ Connected

(* ---------------------------------------------------------------------- *)
(* Steps                                                                   *)
(* ---------------------------------------------------------------------- *)
\* time passes
Tick ==
    /\ now < MaxTime
    /\ now' = now + 1
    /\ proc /= "exited"
    /\ UNCHANGED <<pc, req, frame, group, resp, earlier, overlapped, server, tools>>

\* The CallToolRequestSchema handler is invoked for request r and runs to its
\* first await: an unknown name throws and is caught at once; a known name
\* calls its handler group, which runs to its own first await or to its end.
CallTool(c, r) ==
    /\ proc = "serving"
    /\ pc[c] \in {"idle", "done"}
    /\ req' = [req EXCEPT ![c] = r]
    /\ frame' = [frame EXCEPT ![Frame(c)] = Bind(frame[Frame(c)], r)]
    /\ earlier' = IF pc[c] = "done"
                  THEN [failed |-> earlier.failed \/ IsFailure(resp[c]),
                        succeeded |-> earlier.succeeded \/ ~IsFailure(resp[c])]
                  ELSE earlier
    /\ overlapped' = [d \in DOMAIN pc |->
                         IF \E e \in DOMAIN pc \ {c} : pc[e] \in {"awaitLeaf", "awaitGroup"}
                         THEN (d = c) \/ (pc[d] \in {"awaitLeaf", "awaitGroup"}) \/ (d /= c /\ overlapped[d])
                         ELSE d /= c /\ overlapped[d]]
    /\ LET name == frame'[Frame(c)].name
           args == frame'[Frame(c)].args
       IN  IF name \in ToolNames
           THEN LET g == GroupEnter(GroupOf(name), args, now)
                IN  /\ group' = [group EXCEPT ![c] =
                            [fn |-> GroupOf(name), args |-> args, st |-> g.st, env |-> g.env,
                             leaf |-> g.leaf, out |-> g.out]]
                    /\ pc' = [pc EXCEPT ![c] = IF g.st = "awaiting" THEN "awaitLeaf" ELSE "awaitGroup"]
                    /\ resp' = [resp EXCEPT ![c] = NoEnvelope]
           ELSE /\ group' = [group EXCEPT ![c] = NoGroup]
                /\ pc' = [pc EXCEPT ![c] = "done"]
                /\ resp' = [resp EXCEPT ![c] = DispatcherCatch(name, UnknownTool(name))]
    /\ UNCHANGED <<now, server, tools>>

\* the leaf's promise settles and the handler group resumes after its await
LeafSettles(c) ==
    /\ proc /= "exited"
    /\ pc[c] = "awaitLeaf"
    /\ group' = [group EXCEPT ![c].st = "settled",
                              ![c].env = GroupResume(group[c].fn, group[c].out)]
    /\ pc' = [pc EXCEPT ![c] = "awaitGroup"]
    /\ UNCHANGED <<now, req, frame, resp, earlier, overlapped, server, tools>>

\* variant: the dispatcher has no catch block, so a rejected handler group
\* makes the request handler throw
GroupSettlesRethrows(c) ==
    /\ proc /= "exited"
    /\ pc[c] = "awaitGroup"
    /\ resp' = [resp EXCEPT ![c] = IF group[c].st = "settled" THEN group[c].env ELSE NoEnvelope]
    /\ pc' = [pc EXCEPT ![c] = IF group[c].st = "settled" THEN "done" ELSE "thrown"]
    /\ UNCHANGED <<now, req, frame, group, earlier, overlapped, server, tools>>

\* the handler group's promise settles and the dispatcher resumes after its
\* await: it returns the group's envelope, or its catch block answers
GroupSettles(c) ==
    /\ proc /= "exited"
    /\ pc[c] = "awaitGroup"
    /\ resp' = [resp EXCEPT ![c] =
                  IF group[c].st = "settled"
                  THEN group[c].env
                  ELSE DispatcherCatch(frame[Frame(c)].name, group[c].out.text)]
    /\ pc' = [pc EXCEPT ![c] = "done"]
    /\ UNCHANGED <<now, req, frame, group, earlier, overlapped, server, tools>>

\* the ListToolsRequestSchema handler: it has no await and returns the list
ListTools ==
    /\ proc = "serving"
    /\ tools' = ListToolsResult
    /\ UNCHANGED <<now, pc, req, frame, group, resp, earlier, overlapped, server>>

\* run(): `await this.server.connect(transport)` resolves and the banner is
\* written
Connect ==
    /\ proc = "starting"
    /\ proc' = "serving"
    /\ stderr' = stderr \cup {"ReadyAPI MCP Server running on stdio"}
    /\ UNCHANGED <<now, pc, req, frame, group, resp, earlier, overlapped, exit, sig, closed, tools>>

\* variant: the start-up failure is reported but the process is not ended
ConnectFailsKeepsRunning ==
    /\ proc = "starting"
    /\ proc' = "serving"
    /\ stderr' = stderr \cup {"Failed to start server:"}
    /\ UNCHANGED <<now, pc, req, frame, group, resp, earlier, overlapped, exit, sig, closed, tools>>

\* run() rejects: the catch of the start-up call reports it and calls
\* process.exit(1)
ConnectFails ==
    /\ proc = "starting"
    /\ proc' = "exited"
    /\ exit' = 1
    /\ stderr' = stderr \cup {"Failed to start server:"}
    /\ UNCHANGED <<now, pc, req, frame, group, resp, earlier, overlapped, sig, closed, tools>>

\* SIGINT arrives: the handler calls this.server.close(), which stops the
\* transport, and suspends at the await
Sigint ==
    /\ proc /= "exited"
    /\ sig < MaxSignals
    /\ sig' = sig + 1
    /\ proc' = "closing"
    /\ UNCHANGED <<now, pc, req, frame, group, resp, earlier, overlapped, exit, closed, stderr, tools>>

\* a server.close() promise resolves
CloseCompletes ==
    /\ proc = "closing"
    /\ ~closed
    /\ closed' = TRUE
    /\ UNCHANGED <<now, pc, req, frame, group, resp, earlier, overlapped, proc, exit, sig, stderr, tools>>

\* variant: the handler does not wait for the close
NoAwaitClose(done) == TRUE

\* `await this.server.close()`: the handler resumes once the promise resolved
AwaitClose(done) == done

\* the SIGINT handler resumes after its await and calls process.exit(0)
SigintExits ==
    /\ proc = "closing"
    /\ sig > 0
    /\ AwaitClose(closed)
    /\ proc' = "exited"
    /\ exit' = 0
    /\ UNCHANGED <<now, pc, req, frame, group, resp, earlier, overlapped, sig, closed, stderr, tools>>

Invoke == \E c \in DOMAIN pc : \E r \in Requests : CallTool(c, r)
InvokeConc == \E c \in DOMAIN pc : \E r \in ConcRequests : CallTool(c, r)
ResumeGroup == \E c \in DOMAIN pc : LeafSettles(c)
ResumeDispatcher == \E c \in DOMAIN pc : GroupSettles(c)

Next == Tick \/ Invoke \/ ResumeGroup \/ ResumeDispatcher
Spec == Init /\ [][Next]_vars

NextConc == Tick \/ InvokeConc \/ ResumeGroup \/ ResumeDispatcher
SpecConc == InitConc /\ [][NextConc]_vars

\* the host sends one request and then sends the identical request again,
\* before or after the first is answered
InitRepeat == InitCalls({1, 2}) /\ Connected
InvokeFirst == pc[1] = "idle" /\ pc[2] = "idle" /\ \E r \in Requests : CallTool(1, r)
InvokeAgain == pc[1] /= "idle" /\ pc[2] = "idle" /\ CallTool(2, req[1])
NextRepeat == Tick \/ InvokeFirst \/ InvokeAgain \/ ResumeGroup \/ ResumeDispatcher
SpecRepeat == InitRepeat /\ [][NextRepeat]_vars

\* the whole process: the module is loaded, the constructor has registered
\* the handlers and run() is suspended at its await
InitServer ==
    /\ InitCalls({1})
    /\ proc = "starting"
    /\ stderr = {}

\* no step of the process's life cycle reads the clock, so the clock is left
\* standing here; Spec, SpecConc and SpecRepeat let it advance
NextServer ==
    \/ Connect \/ ConnectFails \/ Sigint \/ CloseCompletes \/ SigintExits
    \/ ListTools \/ Invoke \/ ResumeGroup \/ ResumeDispatcher

\* a suspended handler whose promise has settled is resumed
Fairness ==
    /\ WF_vars(ResumeGroup)
    /\ WF_vars(ResumeDispatcher)
    /\ WF_vars(CloseCompletes)
    /\ WF_vars(SigintExits)

SpecServer == InitServer /\ [][NextServer]_vars /\ Fairness

(* ---------------------------------------------------------------------- *)
(* Properties                                                              *)
(* ---------------------------------------------------------------------- *)
Calls == DOMAIN pc
Answered(c) == pc[c] = "done"
TextOf(env) == env.content[1].text

\* the envelope the request gets when it is the only call the server ever serves
ServedAlone(r) ==
    IF r.name \notin ToolNames
    THEN DispatcherCatch(r.name, UnknownTool(r.name))
    ELSE LET g == GroupEnter(GroupOf(r.name), r.args, 0)
         IN  CASE g.st = "rejected" -> DispatcherCatch(r.name, g.out.text)
               [] g.st = "settled" -> g.env
               [] OTHER -> GroupResume(GroupOf(r.name), g.out)

\* C1: a call of a name outside the six registered names, with any argument
\* bag, is answered with isError = true and a single text block that contains
\* the name.
C1_UnknownNameIsError ==
    \A c \in Calls :
        (Answered(c) /\ req[c].name \notin ToolNames) =>
            /\ resp[c].isError = "true"
            /\ Len(resp[c].content) = 1
            /\ Contains(TextOf(resp[c]), req[c].name)

C1_Witness ==
    \E c \in Calls : Answered(c) /\ req[c].name \notin ToolNames /\ req[c].args.present

\* C2: a call of a registered name is never answered with isError = true,
\* whatever its argument bag, the absent one included.
C2_IsErrorOnlyForUnknownName ==
    \A c \in Calls :
        (Answered(c) /\ req[c].name \in ToolNames) => resp[c].isError /= "true"

\* C3: a handler group called with any argument returns an envelope; its
\* promise is never rejected.
C3_GroupNeverThrows ==
    \A c \in Calls : group[c].st /= "rejected"

\* a call of a registered name whose argument bag lacks projectPath
OmitsProjectPath(c) ==
    /\ Answered(c)
    /\ req[c].name \in ToolNames
    /\ req[c].args.present
    /\ req[c].args.f.projectPath = Undefined

C4_Domain(name) ==
    CASE name = "readyapi_analyze_project" -> <<S("analyzing "), S("ReadyAPI project")>>
      [] name = "readyapi_execute_test_suite" -> <<S("executing "), S("ReadyAPI test suite")>>
      [] name = "readyapi_manage_soap_services" -> <<S("managing "), S("SOAP services")>>
      [] name = "readyapi_manage_rest_services" -> <<S("managing "), S("REST services")>>
      [] name = "readyapi_manage_assertions" -> <<S("managing "), S("assertions")>>
      [] OTHER -> <<S("managing "), S("test data")>>

C5_Recognized(name) ==
    CASE name = "readyapi_analyze_project" ->
           {Str("overview"), Str("test_coverage"), Str("endpoint_health"), Str("performance_metrics")}
      [] name = "readyapi_manage_soap_services" ->
           {Str("import_wsdl"), Str("create_request"), Str("validate_response"), Str("update_endpoint")}
      [] name = "readyapi_manage_rest_services" ->
           {Str("create_request"), Str("import_swagger"), Str("validate_endpoint"), Str("test_auth")}
      [] name = "readyapi_manage_assertions" ->
           {Str("create_assertion"), Str("validate_response"), Str("update_assertion"), Str("list_assertions")}
      [] name = "readyapi_manage_test_data" ->
           {Str("create_datasource"), Str("import_excel"), Str("create_database_connection"),
            Str("generate_test_data")}
      [] OTHER -> {}

ActionNames ==
    {"readyapi_manage_soap_services", "readyapi_manage_rest_services",
     "readyapi_manage_assertions", "readyapi_manage_test_data"}

\* the discriminator the call supplies
C5_Discriminator(c) ==
    IF req[c].name = "readyapi_analyze_project"
    THEN req[c].args.f.analysisType
    ELSE req[c].args.f.action

\* an answered call with a valid projectPath and a supplied discriminator
\* outside the recognized set
C5_Unrecognized(c) ==
    /\ Answered(c)
    /\ req[c].name \in ActionNames \cup {"readyapi_analyze_project"}
    /\ req[c].args.present
    /\ req[c].args.f.projectPath = GoodPath
    /\ C5_Discriminator(c) /= Undefined
    /\ C5_Discriminator(c) \notin C5_Recognized(req[c].name)

\* C5 as stated: every such call answers "Error managing <domain>: Unknown
\* <domain> action: <value>" and runs no leaf operation.
C5_UnknownActionTextForAll ==
    \A c \in Calls :
        C5_Unrecognized(c) =>
            /\ group[c].leaf = "none"
            /\ Len(TextOf(resp[c])) = 8
            /\ TextOf(resp[c])[1] = S("Error ")
            /\ TextOf(resp[c])[2] = S("managing ")
            /\ TextOf(resp[c])[4] = S(": ")
            /\ TextOf(resp[c])[5] = S("Unknown ")
            /\ TextOf(resp[c])[7] = S(" action: ")
            /\ TextOf(resp[c])[8] = V(C5_Discriminator(c))

\* the domain word of each operation's unknown-action message
C5_ActionDomain(name) ==
    CASE name = "readyapi_manage_soap_services" -> "SOAP"
      [] name = "readyapi_manage_rest_services" -> "REST"
      [] name = "readyapi_manage_assertions" -> "assertion"
      [] OTHER -> "data management"

\* C5 amended: with a valid projectPath and a supplied discriminator outside
\* the recognized set, no leaf runs and isError is unset; an action group
\* answers "<its prefix>Unknown <domain> action: <value>" when the value is
\* truthy and "<its prefix>Action is required" when it is null or empty;
\* analyze_project answers "Error analyzing ReadyAPI project: Unknown
\* analysis type: <value>".
C5_UnknownDiscriminatorRejected ==
    \A c \in Calls :
        C5_Unrecognized(c) =>
            /\ group[c].leaf = "none"
            /\ resp[c].isError = "unset"
            /\ TextOf(resp[c]) =
                   <<S("Error ")>> \o C4_Domain(req[c].name) \o <<S(": ")>> \o
                   (IF req[c].name = "readyapi_analyze_project"
                    THEN <<S("Unknown "), S("analysis"), S(" type: "), V(C5_Discriminator(c))>>
                    ELSE IF Truthy(C5_Discriminator(c))
                    THEN <<S("Unknown "), S(C5_ActionDomain(req[c].name)), S(" action: "),
                           V(C5_Discriminator(c))>>
                    ELSE <<S("Action is required")>>)

C5_Witness ==
    \E c \in Calls :
        /\ C5_Unrecognized(c)
        /\ req[c].name = "readyapi_manage_test_data"
        /\ C5_Discriminator(c) = Str("bogus")

\* a piece of text is a string or a rendered clock reading
IsPiece(x) == x.k \in {"str", "time"}

\* C6: every envelope the dispatcher returns, on success and on every failure
\* path, has exactly one content block, of type "text", whose text is a string.
C6_OneTextBlock ==
    \A c \in Calls :
        Answered(c) =>
            /\ DOMAIN resp[c].content = {1}
            /\ resp[c].content[1].type = "text"
            /\ \A i \in DOMAIN TextOf(resp[c]) : IsPiece(TextOf(resp[c])[i])

C6_Witness ==
    \E c \in Calls :
        Answered(c) /\ ~IsFailure(resp[c]) /\ earlier.failed /\ earlier.succeeded

\* C7: for a registered name the dispatcher hands the request's argument bag
\* unchanged to the one group registered for the name and returns that
\* group's envelope unchanged, adding no isError flag.
C7_ForwardsAndReturnsVerbatim ==
    \A c \in Calls :
        (Answered(c) /\ req[c].name \in ToolNames) =>
            /\ group[c].fn = GroupOf(req[c].name)
            /\ group[c].args = req[c].args
            /\ group[c].st = "settled"
            /\ resp[c] = group[c].env
            /\ resp[c].isError = "unset"

\* C8: whatever calls were served before, successful or failed, a call is
\* answered with the envelope it gets when it is the first call served, up to
\* the embedded clock reading.
C8_IndependentOfEarlierCalls ==
    \A c \in Calls :
        Answered(c) => EraseEnvelope(resp[c]) = EraseEnvelope(ServedAlone(req[c]))

C8_Witness ==
    \E c \in Calls :
        /\ Answered(c)
        /\ earlier.failed /\ earlier.succeeded
        /\ TimeCount(TextOf(resp[c])) = 1

\* the call is suspended at an await
InFlight(c) == pc[c] \in {"awaitLeaf", "awaitGroup"}

\* C9: with several calls in flight and their resumptions interleaved in any
\* order, each handler group runs on its own call's argument bag and each call
\* is answered with the envelope it gets when run alone, up to the clock
\* reading.
C9_NoInterference ==
    \A c \in Calls :
        /\ (InFlight(c) \/ (Answered(c) /\ req[c].name \in ToolNames)) =>
              /\ group[c].fn = GroupOf(req[c].name)
              /\ group[c].args = req[c].args
              /\ group[c].st /= "rejected" =>
                    group[c].leaf = GroupEnter(group[c].fn, req[c].args, 0).leaf
        /\ Answered(c) => EraseEnvelope(resp[c]) = EraseEnvelope(ServedAlone(req[c]))

C9_Witness ==
    \E c \in Calls :
        /\ Answered(c) /\ overlapped[c]
        /\ group[c].st = "rejected"
        /\ \E d \in Calls \ {c} : InFlight(d) /\ req[d].name /= req[c].name

\* C10: two calls with the same operation name and the same fields are
\* answered with texts that agree once the clock reading is blanked, and a
\* text embeds at most one clock reading.
C10_IdenticalCallsAgree ==
    /\ \A c, d \in Calls :
          (Answered(c) /\ Answered(d) /\ req[c] = req[d]) =>
              EraseEnvelope(resp[c]) = EraseEnvelope(resp[d])
    /\ \A c \in Calls : Answered(c) => TimeCount(TextOf(resp[c])) <= 1

C10_Witness ==
    \E c, d \in Calls :
        /\ c /= d /\ Answered(c) /\ Answered(d)
        /\ req[c] = req[d]
        /\ resp[c] /= resp[d]

\* v occurs in cs as a run of consecutive characters
OccursIn(v, cs) ==
    \E i \in 1..(Len(cs) - Len(v) + 1) : SubSeq(cs, i, i + Len(v) - 1) = v

\* the password values a connection string carries: what follows each
\* "password=" key, up to the next ";"
C11_PasswordValues(cs) ==
    {SubSeq(cs, i + Len(PasswordKey), MatchEnd(cs, i + Len(PasswordKey))) :
        i \in {j \in DOMAIN cs : MatchesAt(cs, j)}}

\* an answered create_database_connection call with a string connectionString
C11_Connection(c) ==
    /\ Answered(c)
    /\ req[c].name = "readyapi_manage_test_data"
    /\ req[c].args.present
    /\ req[c].args.f.projectPath = GoodPath
    /\ req[c].args.f.action = Str("create_database_connection")
    /\ TypeOf(req[c].args.f.connectionString) = "string"

\* C11: for manage_test_data with action create_database_connection and any
\* connection string that carries a password, no password value supplied in
\* the connection string appears in the returned text.
C11_NoPasswordValueInOutput ==
    \A c \in Calls :
        C11_Connection(c) =>
            \A v \in C11_PasswordValues(req[c].args.f.connectionString.s) :
                \A i \in DOMAIN TextOf(resp[c]) : ~OccursIn(v, TextOf(resp[c])[i].v)

\* an answered analyze_project call with a valid projectPath and no analysisType
C12_NoAnalysisType(c) ==
    /\ Answered(c)
    /\ req[c].name = "readyapi_analyze_project"
    /\ req[c].args.present
    /\ ~InvalidProjectPath(req[c].args.f.projectPath)
    /\ req[c].args.f.analysisType = Undefined

\* C12: analyze_project with a valid projectPath and no analysisType runs the
\* overview branch: the text begins with the project-overview heading and is
\* the text of the same call with analysisType = "overview".
C12_DefaultsToOverview ==
    \A c \in Calls :
        C12_NoAnalysisType(c) =>
            /\ group[c].leaf = "performProjectOverview"
            /\ resp[c].isError = "unset"
            /\ Head(TextOf(resp[c])) = S("ReadyAPI Project Analysis - Overview")
            /\ resp[c] = ServedAlone([req[c] EXCEPT !.args.f.analysisType = Str("overview")])

C12_Witness ==
    \E c \in Calls : C12_NoAnalysisType(c) /\ earlier.failed

\* an answered execute_test_suite call with valid projectPath and
\* testSuitePath and no testRunner
C13_NoTestRunner(c) ==
    /\ Answered(c)
    /\ req[c].name = "readyapi_execute_test_suite"
    /\ req[c].args.present
    /\ ~InvalidProjectPath(req[c].args.f.projectPath)
    /\ Truthy(req[c].args.f.testSuitePath)
    /\ TypeOf(req[c].args.f.testSuitePath) = "string"
    /\ req[c].args.f.testRunner = Undefined

\* the environment the call runs in: the supplied one, "default" when absent
C13_Environment(c) ==
    IF req[c].args.f.environment = Undefined
    THEN Str("default")
    ELSE req[c].args.f.environment

\* C13: execute_test_suite with valid projectPath and testSuitePath and no
\* testRunner behaves as testRunner = "headless", and an absent environment as
\* "default": the text contains the headless command line built from the suite
\* path, the environment and the project path.
C13_DefaultsToHeadless ==
    \A c \in Calls :
        C13_NoTestRunner(c) =>
            /\ resp[c].isError = "unset"
            /\ EraseEnvelope(resp[c]) =
                   EraseEnvelope(ServedAlone(
                       [req[c] EXCEPT !.args.f.testRunner = Str("headless"),
                                      !.args.f.environment = C13_Environment(c)]))
            /\ OccursIn(<<S("testrunner.bat -s\""), V(req[c].args.f.testSuitePath),
                          S("\" -e\""), V(C13_Environment(c)),
                          S("\" \""), V(req[c].args.f.projectPath), S("\"")>>,
                        TextOf(resp[c]))

C13_Witness ==
    \E c \in Calls : C13_NoTestRunner(c) /\ req[c].args.f.environment = Undefined

\* an answered SOAP create_request call with a valid projectPath
C14_CreateRequest(c) ==
    /\ Answered(c)
    /\ req[c].name = "readyapi_manage_soap_services"
    /\ req[c].args.present
    /\ ~InvalidProjectPath(req[c].args.f.projectPath)
    /\ req[c].args.f.action = Str("create_request")

\* C14: manage_soap_services with a valid projectPath and action
\* create_request answers the enveloped error "Service name is required for
\* creating SOAP request" whenever serviceName is missing, operationName
\* missing or not; with serviceName present and operationName missing it
\* answers the operation-name error.
C14_ServiceNameCheckedFirst ==
    \A c \in Calls :
        C14_CreateRequest(c) =>
            /\ req[c].args.f.serviceName = Undefined =>
                  /\ resp[c].isError = "unset"
                  /\ TextOf(resp[c]) =
                         <<S("Error "), S("managing "), S("SOAP services"), S(": "),
                           S("Service name is required for creating SOAP request")>>
            /\ (Truthy(req[c].args.f.serviceName) /\ req[c].args.f.operationName = Undefined) =>
                  /\ resp[c].isError = "unset"
                  /\ TextOf(resp[c]) =
                         <<S("Error "), S("managing "), S("SOAP services"), S(": "),
                           S("Operation name is required for creating SOAP request")>>

C14_Witness ==
    \E c \in Calls :
        /\ C14_CreateRequest(c)
        /\ req[c].args.f.serviceName = Undefined
        /\ req[c].args.f.operationName = Undefined

\* the leaf actions with a required field: operation, action, field, and the
\* message that names the field
C15_Required ==
    {<<"readyapi_manage_soap_services", "import_wsdl", "wsdlUrl",
       "WSDL URL is required for import operation">>,
     <<"readyapi_manage_rest_services", "create_request", "endpoint",
       "Endpoint URL is required for creating REST request">>,
     <<"readyapi_manage_rest_services", "import_swagger", "swaggerUrl",
       "Swagger/OpenAPI specification URL is required">>,
     <<"readyapi_manage_assertions", "create_assertion", "testStepName",
       "Test step name is required for creating assertion">>,
     <<"readyapi_manage_assertions", "create_assertion", "assertionType",
       "Assertion type is required">>,
     <<"readyapi_manage_test_data", "create_datasource", "dataSourceType",
       "Data source type is required">>,
     <<"readyapi_manage_test_data", "import_excel", "filePath",
       "Excel file path is required for import">>,
     <<"readyapi_manage_test_data", "create_database_connection", "connectionString",
       "Database connection string is required">>}

\* an answered call of the row's action, with a valid projectPath and the
\* row's field missing (for assertionType: testStepName being supplied)
C15_Missing(c, row) ==
    /\ Answered(c)
    /\ req[c].name = row[1]
    /\ req[c].args.present
    /\ ~InvalidProjectPath(req[c].args.f.projectPath)
    /\ req[c].args.f.action = Str(row[2])
    /\ req[c].args.f[row[3]] = Undefined
    /\ row[3] = "assertionType" => Truthy(req[c].args.f.testStepName)

\* C15: with a valid projectPath, each leaf action called without its
\* required field returns a plain envelope (isError unset) whose text is the
\* group's error prefix followed by the message naming the missing field.
C15_RequiredFieldsEnforced ==
    \A c \in Calls : \A row \in C15_Required :
        C15_Missing(c, row) =>
            /\ resp[c].isError = "unset"
            /\ group[c].st = "settled"
            /\ TextOf(resp[c]) =
                   <<S("Error ")>> \o C4_Domain(req[c].name) \o <<S(": "), S(row[4])>>

C15_Witness ==
    \E c \in Calls :
        /\ C15_Missing(c, <<"readyapi_manage_test_data", "import_excel", "filePath",
                            "Excel file path is required for import">>)
        /\ earlier.succeeded

\* an answered call of an operation that takes a discriminator, with a valid
\* projectPath and the discriminator absent
C16_NoDiscriminator(c) ==
    /\ Answered(c)
    /\ req[c].name \in ActionNames \cup {"readyapi_analyze_project"}
    /\ req[c].args.present
    /\ ~InvalidProjectPath(req[c].args.f.projectPath)
    /\ C5_Discriminator(c) = Undefined

\* the domain each action-taking group names in its error prefix
C16_DomainName(name) ==
    CASE name = "readyapi_manage_soap_services" -> "SOAP services"
      [] name = "readyapi_manage_rest_services" -> "REST services"
      [] name = "readyapi_manage_assertions" -> "assertions"
      [] OTHER -> "test data"

\* C16 as stated: for every handler group, a call with a valid projectPath
\* and the discriminator absent returns a plain envelope whose text has the
\* shape "Error managing <domain>: <message>", and no leaf operation runs.
C16_AbsentDiscriminatorFailsForAll ==
    \A c \in Calls :
        C16_NoDiscriminator(c) =>
            /\ resp[c].isError = "unset"
            /\ group[c].leaf = "none"
            /\ Len(TextOf(resp[c])) >= 5
            /\ TextOf(resp[c])[1] = S("Error ")
            /\ TextOf(resp[c])[2] = S("managing ")
            /\ TextOf(resp[c])[4] = S(": ")

\* C16 amended: with a valid projectPath and the discriminator absent, each
\* of the four action-taking groups returns a plain envelope with its prefix
\* "Error managing <domain>: " followed by "Action is required" and runs no
\* leaf; analyze_project has no such failure: it runs the overview leaf and
\* returns its report.
C16_AbsentActionRejected ==
    \A c \in Calls :
        C16_NoDiscriminator(c) =>
            /\ resp[c].isError = "unset"
            /\ IF req[c].name \in ActionNames
               THEN /\ group[c].leaf = "none"
                    /\ TextOf(resp[c]) =
                           <<S("Error "), S("managing "), S(C16_DomainName(req[c].name)), S(": "),
                             S("Action is required")>>
               ELSE /\ group[c].leaf = "performProjectOverview"
                    /\ Head(TextOf(resp[c])) = S("ReadyAPI Project Analysis - Overview")

C16_Witness ==
    \E c \in Calls :
        /\ C16_NoDiscriminator(c)
        /\ req[c].name = "readyapi_manage_rest_services"
        /\ earlier.succeeded

\* the six operation names
C17_Names ==
    {"readyapi_analyze_project", "readyapi_execute_test_suite",
     "readyapi_manage_soap_services", "readyapi_manage_rest_services",
     "readyapi_manage_assertions", "readyapi_manage_test_data"}

\* C17: discovery returns the same static list of exactly six descriptors on
\* every call, whatever invocations came before; their names are the six
\* readyapi_* names, and a call of any of these names is never answered with
\* "Unknown tool".
C17_SixStaticTools ==
    /\ tools /= <<>> =>
          /\ Len(tools) = 6
          /\ {tools[i].name : i \in DOMAIN tools} = C17_Names
          /\ tools = ListToolsResult
    /\ \A c \in Calls :
          (Answered(c) /\ req[c].name \in C17_Names) =>
              ~Contains(TextOf(resp[c]), "Unknown tool: ")

C17_Witness ==
    /\ tools /= <<>>
    /\ earlier.failed /\ earlier.succeeded
    /\ \E c \in Calls : Answered(c) /\ req[c].name = "readyapi_manage_test_data"

\* the calls of the process specification
ServerCalls == {1}

\* C18: the dispatcher never throws past its own boundary and a failed call
\* does not end the process: every tool call, for any name and any argument
\* bag, ends with a returned envelope (as long as the process is not
\* interrupted); after a failed call the server is still serving, and a
\* following call is answered with its normal result.
C18_DispatcherAlwaysAnswers ==
    /\ [](\A c \in ServerCalls :
            /\ pc[c] /= "thrown"
            /\ Answered(c) =>
                  /\ Len(resp[c].content) = 1
                  /\ resp[c].content[1].type = "text"
            /\ (Answered(c) /\ IsFailure(resp[c]) /\ sig = 0) =>
                  (proc = "serving" /\ exit = Running)
            /\ (Answered(c) /\ earlier.failed) =>
                  EraseEnvelope(resp[c]) = EraseEnvelope(ServedAlone(req[c])))
    /\ \A c \in ServerCalls :
          InFlight(c) ~> (Answered(c) \/ proc /= "serving")

C18_Witness ==
    \E c \in Calls :
        /\ Answered(c)
        /\ proc = "serving"
        /\ earlier.failed
        /\ ~IsFailure(resp[c])
        /\ TextOf(resp[c]) /= <<>>

\* C19: once started, the server keeps serving until an interrupt signal
\* arrives; on the interrupt it closes the server and exits with status 0 only
\* after the close has completed, and no request is answered after the exit.
C19_ServesUntilInterrupted ==
    /\ [](proc = "serving" => (sig = 0 /\ exit = Running /\ ENABLED ListTools))
    /\ [][(proc = "serving" /\ proc' /= "serving") => (proc' = "closing" /\ sig' = sig + 1)]_vars
    /\ [][(proc = "closing" /\ proc' /= "closing") => (closed /\ proc' = "exited" /\ exit' = 0)]_vars
    /\ [](exit = 0 => (closed /\ sig > 0 /\ proc = "exited"))
    /\ [][proc = "exited" => (resp' = resp /\ pc' = pc /\ tools' = tools /\ proc' = "exited")]_vars
    /\ (proc = "closing") ~> (proc = "exited" /\ exit = 0)

C19_Witness ==
    /\ proc = "exited"
    /\ exit = 0
    /\ closed
    /\ earlier.succeeded
    /\ \E c \in Calls : InFlight(c)

\* the discriminator field of each operation that advertises one
C20_Field(name) == IF name = "readyapi_analyze_project" THEN "analysisType" ELSE "action"

\* the values the discovery schema advertises for the operation's discriminator
C20_Advertised(name) ==
    {Str(e[2]) : e \in {x \in UNION {ListToolsResult[i].enums : i \in
                           {j \in DOMAIN ListToolsResult : ListToolsResult[j].name = name}} :
                        x[1] = C20_Field(name)}}

\* an answered call of one of the five operations, with a valid projectPath
\* and a discriminator supplied
C20_Discriminated(c) ==
    /\ Answered(c)
    /\ req[c].name \in ActionNames \cup {"readyapi_analyze_project"}
    /\ req[c].args.present
    /\ ~InvalidProjectPath(req[c].args.f.projectPath)
    /\ req[c].args.f[C20_Field(req[c].name)] /= Undefined

\* C20: for the five operations that advertise a discriminator enum, the
\* handler accepts exactly the advertised values: every advertised value
\* reaches a leaf operation and is never answered with an "Unknown ..." error,
\* and every non-empty value outside the enum is rejected.
C20_AcceptedIsAdvertised ==
    \A c \in Calls :
        C20_Discriminated(c) =>
            LET d == req[c].args.f[C20_Field(req[c].name)]
            IN  /\ d \in C20_Advertised(req[c].name) =>
                      /\ group[c].leaf /= "none"
                      /\ ~Contains(TextOf(resp[c]), "Unknown ")
                /\ (Truthy(d) /\ d \notin C20_Advertised(req[c].name)) =>
                      /\ group[c].leaf = "none"
                      /\ IsFailure(resp[c])
                      /\ Contains(TextOf(resp[c]), "Unknown ")

C20_Witness ==
    \E c \in Calls :
        /\ C20_Discriminated(c)
        /\ req[c].name = "readyapi_manage_rest_services"
        /\ req[c].args.f.action = Str("bogus")
        /\ earlier.succeeded

\* an answered call of a registered name whose projectPath is supplied but is
\* not a non-empty string
C21_UnusablePath(c) ==
    /\ Answered(c)
    /\ req[c].name \in ToolNames
    /\ req[c].args.present
    /\ req[c].args.f.projectPath /= Undefined
    /\ ~(req[c].args.f.projectPath.t = "string" /\ req[c].args.f.projectPath.s /= <<>>)

C22_Execute(c) ==
    /\ Answered(c)
    /\ req[c].name = "readyapi_execute_test_suite"
    /\ req[c].args.present

\* the value is a non-empty string
C22_Usable(x) == x.t = "string" /\ x.s /= <<>>

\* C22: execute_test_suite requires testSuitePath as well as projectPath: with
\* a valid projectPath and testSuitePath absent, empty or not a string it
\* returns a plain envelope with "Test suite path is required and must be a
\* string"; when both are invalid the projectPath message is the one reported.
C22_SuitePathRequired ==
    \A c \in Calls :
        C22_Execute(c) =>
            /\ (C22_Usable(req[c].args.f.projectPath) /\ ~C22_Usable(req[c].args.f.testSuitePath)) =>
                  /\ resp[c].isError = "unset"
                  /\ group[c].leaf = "none"
                  /\ TextOf(resp[c]) =
                         <<S("Error "), S("executing "), S("ReadyAPI test suite"), S(": "),
                           S("Test suite path is required and must be a string")>>
            /\ (~C22_Usable(req[c].args.f.projectPath) /\ ~C22_Usable(req[c].args.f.testSuitePath)) =>
                  /\ resp[c].isError = "unset"
                  /\ group[c].leaf = "none"
                  /\ TextOf(resp[c]) =
                         <<S("Error "), S("executing "), S("ReadyAPI test suite"), S(": "),
                           S("Project path is required and must be a string")>>

C22_Witness ==
    \E c \in Calls :
        /\ C22_Execute(c)
        /\ req[c].args.f.projectPath = Num(5)
        /\ req[c].args.f.testSuitePath = Undefined
        /\ earlier.succeeded

\* C23: a failure to start (the transport connection rejecting) is reported
\* to the operator and ends the process with exit status 1, and no tool call
\* is served in that run.
C23_StartFailureExitsOne ==
    /\ []("Failed to start server:" \in stderr <=> exit = 1)
    /\ [](exit = 1 =>
            /\ proc = "exited"
            /\ "ReadyAPI MCP Server running on stdio" \notin stderr
            /\ tools = <<>>
            /\ \A c \in ServerCalls : pc[c] = "idle" /\ resp[c] = NoEnvelope)
    /\ [][(proc = "starting" /\ proc' \notin {"starting", "serving", "closing"}) =>
              (proc' = "exited" /\ exit' = 1)]_vars
    /\ [][exit = 1 => (exit' = 1 /\ pc' = pc /\ resp' = resp /\ tools' = tools)]_vars

C23_Witness ==
    /\ exit = 1
    /\ proc = "exited"
    /\ "Failed to start server:" \in stderr

\* an answered, successful REST create_request call
C24_Created(c) ==
    /\ Answered(c)
    /\ req[c].name = "readyapi_manage_rest_services"
    /\ req[c].args.present
    /\ req[c].args.f.projectPath = GoodPath
    /\ req[c].args.f.action = Str("create_request")
    /\ Head(TextOf(resp[c])) = S("REST API Request Creation")

\* the request-body template of the generated request
C24_Body == S("{ \"parameter1\": \"value1\", \"parameter2\": \"value2\" }")

\* C24: REST create_request uses GET when method is absent, and for every
\* method value the handler accepts the request-body template is part of the
\* generated request exactly when the method is POST, PUT or PATCH.
C24_BodyOnlyForPostPutPatch ==
    \A c \in Calls :
        C24_Created(c) =>
            /\ req[c].args.f.method = Undefined =>
                  OccursIn(<<S("- HTTP Method: "), S("GET")>>, TextOf(resp[c]))
            /\ (\E i \in DOMAIN TextOf(resp[c]) : TextOf(resp[c])[i] = C24_Body)
                   <=> req[c].args.f.method \in {Str("POST"), Str("PUT"), Str("PATCH")}

\* the required fields of each leaf action, in the order the leaf checks
\* them, each with its message
C25_LeafChecks(name, action) ==
    CASE name = "readyapi_manage_soap_services" /\ action = Str("import_wsdl") ->
           << <<"wsdlUrl", "WSDL URL is required for import operation">> >>
      [] name = "readyapi_manage_soap_services" /\ action = Str("create_request") ->
           << <<"serviceName", "Service name is required for creating SOAP request">>,
              <<"operationName", "Operation name is required for creating SOAP request">> >>
      [] name = "readyapi_manage_rest_services" /\ action = Str("create_request") ->
           << <<"endpoint", "Endpoint URL is required for creating REST request">> >>
      [] name = "readyapi_manage_rest_services" /\ action = Str("import_swagger") ->
           << <<"swaggerUrl", "Swagger/OpenAPI specification URL is required">> >>
      [] name = "readyapi_manage_rest_services" /\ action = Str("validate_endpoint") ->
           << <<"endpoint", "Endpoint URL is required for validation">> >>
      [] name = "readyapi_manage_assertions" /\ action = Str("create_assertion") ->
           << <<"testStepName", "Test step name is required for creating assertion">>,
              <<"assertionType", "Assertion type is required">> >>
      [] name = "readyapi_manage_test_data" /\ action = Str("create_datasource") ->
           << <<"dataSourceType", "Data source type is required">> >>
      [] name = "readyapi_manage_test_data" /\ action = Str("import_excel") ->
           << <<"filePath", "Excel file path is required for import">> >>
      [] name = "readyapi_manage_test_data" /\ action = Str("create_database_connection") ->
           << <<"connectionString", "Database connection string is required">> >>
      [] OTHER -> <<>>

\* the checks the call fails, in the order projectPath, presence of the
\* action, membership of the action, required fields of the leaf; each with
\* the message that reports it
C25_Failing(name, f) ==
    (IF f.projectPath.t = "string" /\ f.projectPath.s /= <<>> THEN <<>>
     ELSE << <<S("Project path is required and must be a string")>> >>)
    \o (IF Truthy(f.action) THEN <<>> ELSE << <<S("Action is required")>> >>)
    \o (IF ~Truthy(f.action) \/ f.action \in C5_Recognized(name) THEN <<>>
        ELSE << <<S("Unknown "), S(C5_ActionDomain(name)), S(" action: "), V(f.action)>> >>)
    \o LET checks == C25_LeafChecks(name, f.action)
           missing == {i \in DOMAIN checks : ~Truthy(f[checks[i][1]])}
       IN  IF missing = {} THEN <<>>
           ELSE LET i == CHOOSE j \in missing : \A k \in missing : j <= k
                IN  << <<S(checks[i][2])>> >>
                    \o (IF missing = {i} THEN <<>> ELSE << <<S(checks[i + 1][2])>> >>)

\* an answered call of an action-taking group, with an argument bag
C25_ActionCall(c) ==
    /\ Answered(c)
    /\ req[c].name \in ActionNames
    /\ req[c].args.present

\* C25: in every action-taking group validation runs in a fixed order:
\* projectPath, presence of the action, membership of the action in the
\* recognized set, the leaf's required fields; a call failing several checks
\* reports only the first of them in that order, and a leaf runs only after
\* the first three have passed.
C25_FirstFailingCheckReported ==
    \A c \in Calls :
        C25_ActionCall(c) =>
            LET failing == C25_Failing(req[c].name, req[c].args.f)
            IN  /\ failing /= <<>> =>
                      /\ resp[c].isError = "unset"
                      /\ TextOf(resp[c]) =
                             <<S("Error ")>> \o C4_Domain(req[c].name) \o <<S(": ")>> \o Head(failing)
                /\ group[c].leaf /= "none" <=>
                      (/\ req[c].args.f.projectPath.t = "string"
                       /\ req[c].args.f.projectPath.s /= <<>>
                       /\ req[c].args.f.action \in C5_Recognized(req[c].name))

\* a call that fails the first and the last check at once
C25_Witness ==
    \E c \in Calls :
        /\ C25_ActionCall(c)
        /\ Len(C25_Failing(req[c].name, req[c].args.f)) = 3
        /\ req[c].args.f.projectPath = Num(5)
        /\ req[c].args.f.action = Str("create_assertion")

\* the value is supplied as a non-empty string
C26_Supplied(x) == x.t = "string" /\ x.s /= <<>>

\* an answered call of an action-taking group that supplies projectPath, a
\* recognized action and every field required for the action, each as a
\* non-empty string
C26_Complete(c) ==
    /\ Answered(c)
    /\ req[c].name \in ActionNames
    /\ req[c].args.present
    /\ C26_Supplied(req[c].args.f.projectPath)
    /\ req[c].args.f.action \in C5_Recognized(req[c].name)
    /\ LET checks == C25_LeafChecks(req[c].name, req[c].args.f.action)
       IN  \A i \in DOMAIN checks : C26_Supplied(req[c].args.f[checks[i][1]])

\* C26: the required fields are sufficient: a call that supplies projectPath,
\* a recognized action and every required field of the action as non-empty
\* strings returns the leaf's success text and not an error envelope; in
\* particular REST create_request succeeds for every non-empty endpoint.
C26_RequiredFieldsSuffice ==
    \A c \in Calls :
        C26_Complete(c) =>
            /\ resp[c].isError = "unset"
            /\ group[c].leaf /= "none"
            /\ group[c].out.ok
            /\ ~IsFailure(resp[c])

\* "password=" stands at position i of cs, in any letter case
C27_KeyAt(cs, i) ==
    /\ i + 8 <= Len(cs)
    /\ [j \in 1..9 |-> LowerSym(cs[i + j - 1])] = <<"p", "a", "s", "s", "w", "o", "r", "d", "=">>

\* the characters from position b on, up to the next ";" or the end
C27_Run(cs, b) ==
    {k \in b..Len(cs) : \A j \in b..k : cs[j] /= ";"}

\* cs with the key at position i and the run after it replaced by "password=***"
C27_Masked(cs, i) ==
    SubSeq(cs, 1, i - 1)
    \o <<"p", "a", "s", "s", "w", "o", "r", "d", "=", "*", "*", "*">>
    \o SubSeq(cs, i + 9 + Cardinality(C27_Run(cs, i + 9)), Len(cs))

\* the connection string as the answer echoes it
C27_Echoed(c) ==
    LET text == TextOf(resp[c])
        i == CHOOSE j \in DOMAIN text : text[j] = S("- Connection String: ")
    IN  text[i + 1].v

\* an answered, successful create_database_connection call
C27_Connected(c) ==
    /\ C11_Connection(c)
    /\ Head(TextOf(resp[c])) = S("Database Connection Setup")

\* C27 as stated: the first occurrence of "password=", in any letter case,
\* is replaced together with every following character up to the next ";" or
\* the end of the string by "password=***"; everything else is echoed
\* unchanged, and a string without an occurrence is echoed unchanged.
C27_FirstKeyMasked ==
    \A c \in Calls :
        C27_Connected(c) =>
            LET cs == req[c].args.f.connectionString.s
                keys == {i \in DOMAIN cs : C27_KeyAt(cs, i)}
            IN  C27_Echoed(c) =
                    IF keys = {} THEN cs
                    ELSE C27_Masked(cs, CHOOSE i \in keys : \A j \in keys : i <= j)

\* C27 amended: the first occurrence of "password=", in any letter case, that
\* is followed by at least one character other than ";" is replaced together
\* with those characters up to the next ";" or the end of the string by
\* "password=***"; everything else is echoed unchanged; an occurrence
\* followed at once by ";" or by the end of the string is not an occurrence
\* in this sense, and a string without one is echoed unchanged.
C27_FirstValuedKeyMasked ==
    \A c \in Calls :
        C27_Connected(c) =>
            LET cs == req[c].args.f.connectionString.s
                keys == {i \in DOMAIN cs : C27_KeyAt(cs, i) /\ C27_Run(cs, i + 9) /= {}}
            IN  C27_Echoed(c) =
                    IF keys = {} THEN cs
                    ELSE C27_Masked(cs, CHOOSE i \in keys : \A j \in keys : i <= j)

\* a call whose connection string has an empty password before a valued one
C27_Witness ==
    \E c \in Calls :
        /\ C27_Connected(c)
        /\ req[c].args.f.connectionString = ConnEmptyThenPassword
        /\ C27_Echoed(c) /= req[c].args.f.connectionString.s

\* an answered execute_test_suite call with valid paths
C28_ValidPaths(c) ==
    /\ Answered(c)
    /\ req[c].name = "readyapi_execute_test_suite"
    /\ req[c].args.present
    /\ ~InvalidProjectPath(req[c].args.f.projectPath)
    /\ Truthy(req[c].args.f.testSuitePath)
    /\ TypeOf(req[c].args.f.testSuitePath) = "string"

\* C28: execute_test_suite never rejects a testRunner value: with valid
\* paths, any supplied testRunner other than "headless", values outside
\* {gui, headless} included, returns success text that echoes the value and
\* renders the GUI-execution line, and only "headless" or an absent field
\* renders the testrunner command line.
C28_TestRunnerNeverRejected ==
    \A c \in Calls :
        C28_ValidPaths(c) =>
            LET runner == req[c].args.f.testRunner
                text == TextOf(resp[c])
            IN  /\ resp[c].isError = "unset"
                /\ Head(text) = S("ReadyAPI Test Suite Execution Report")
                /\ (runner /= Undefined /\ runner /= Str("headless")) =>
                      /\ OccursIn(<<S("- Test Runner: "), V(runner)>>, text)
                      /\ OccursIn(<<S("ReadyAPI GUI execution with suite: "),
                                    V(req[c].args.f.testSuitePath)>>, text)
                /\ Contains(text, "testrunner.bat -s\"")
                       <=> runner \in {Undefined, Str("headless")}

C28_Witness ==
    \E c \in Calls :
        /\ C28_ValidPaths(c)
        /\ req[c].args.f.testRunner = Str("bogus")
        /\ earlier.failed

\* the secondary enums the schemas advertise
C29_DataSourceTypes == {Str("excel"), Str("csv"), Str("database"), Str("xml"), Str("json")}
C29_AssertionTypes ==
    {Str("xpath"), Str("jsonpath"), Str("response_time"), Str("status_code"), Str("schema_validation")}

\* an answered, otherwise valid create_datasource call whose dataSourceType
\* is a non-empty string outside the enum
C29_OtherDataSource(c) ==
    /\ Answered(c)
    /\ req[c].name = "readyapi_manage_test_data"
    /\ req[c].args.present
    /\ ~InvalidProjectPath(req[c].args.f.projectPath)
    /\ req[c].args.f.action = Str("create_datasource")
    /\ req[c].args.f.dataSourceType.t = "string"
    /\ req[c].args.f.dataSourceType.s /= <<>>
    /\ req[c].args.f.dataSourceType \notin C29_DataSourceTypes

\* an answered, otherwise valid create_assertion call whose assertionType is
\* a non-empty string outside the enum
C29_OtherAssertion(c) ==
    /\ Answered(c)
    /\ req[c].name = "readyapi_manage_assertions"
    /\ req[c].args.present
    /\ ~InvalidProjectPath(req[c].args.f.projectPath)
    /\ req[c].args.f.action = Str("create_assertion")
    /\ Truthy(req[c].args.f.testStepName)
    /\ req[c].args.f.assertionType.t = "string"
    /\ req[c].args.f.assertionType.s /= <<>>
    /\ req[c].args.f.assertionType \notin C29_AssertionTypes

\* C29: the secondary enums are not enforced: in an otherwise valid call,
\* create_datasource with a dataSourceType and create_assertion with an
\* assertionType that is a non-empty string outside the advertised enum
\* return success text with the generic "Custom" template that echoes the
\* type, never an error envelope.
C29_SecondaryEnumsNotEnforced ==
    \A c \in Calls :
        /\ C29_OtherDataSource(c) =>
              /\ resp[c].isError = "unset"
              /\ Head(TextOf(resp[c])) = S("Data Source Creation")
              /\ OccursIn(<<S("Custom Data Source:"), S("- Type: "), V(req[c].args.f.dataSourceType)>>,
                          TextOf(resp[c]))
        /\ C29_OtherAssertion(c) =>
              /\ resp[c].isError = "unset"
              /\ Head(TextOf(resp[c])) = S("Assertion Creation")
              /\ OccursIn(<<S("Custom Assertion:"), S("- Type: "), V(req[c].args.f.assertionType)>>,
                          TextOf(resp[c]))

C29_Witness ==
    \E c \in Calls : C29_OtherDataSource(c) /\ earlier.succeeded

\* an answered call with a valid projectPath whose discriminator is supplied
\* as null or as the empty string
C30_EmptyDiscriminator(c) ==
    /\ Answered(c)
    /\ req[c].name \in ActionNames \cup {"readyapi_analyze_project"}
    /\ req[c].args.present
    /\ ~InvalidProjectPath(req[c].args.f.projectPath)
    /\ C5_Discriminator(c) \in {Null, Str("")}

\* C30: the analyze_project default applies only to an absent analysisType:
\* with a valid projectPath, an analysisType of null or "" is not replaced by
\* "overview" and the answer is "Error analyzing ReadyAPI project: Unknown
\* analysis type: <value>"; in the four action-taking groups a null or ""
\* action is answered with "Action is required", not with an "Unknown ...
\* action" message.
C30_DefaultOnlyWhenAbsent ==
    \A c \in Calls :
        C30_EmptyDiscriminator(c) =>
            LET text == TextOf(resp[c])
                value == C5_Discriminator(c)
            IN  /\ group[c].leaf = "none"
                /\ IF req[c].name = "readyapi_analyze_project"
                   THEN /\ text = AnalyzePrefix
                                    \o <<S("Unknown "), S("analysis"), S(" type: "), V(value)>>
                        /\ text /= TextOf(ServedAlone(
                                      [req[c] EXCEPT !.args.f.analysisType = Str("overview")]))
                   ELSE /\ text = PrefixOf(GroupOf(req[c].name)) \o <<S("Action is required")>>
                        /\ ~Contains(text, "Unknown ")

C30_Witness ==
    \E c \in Calls :
        /\ C30_EmptyDiscriminator(c)
        /\ req[c].name = "readyapi_analyze_project"
        /\ req[c].args.f.analysisType = Null
        /\ earlier.succeeded
====
